---- MODULE Spec2Model ----
(***************************************************************************)
(* The rendering pools of maplibre-native-rs.                               *)
(*                                                                         *)
(*   src/src/pool.rs                 SingleThreadedRenderPool: one worker  *)
(*                                   thread owning one renderer, fed by an *)
(*                                   mpsc queue, answering on one-shots.   *)
(*   src/src/pool/multi_threaded.rs  MultiThreadedRenderPool: worker       *)
(*                                   processes fed over pipes, one reader  *)
(*                                   thread per worker in the parent.      *)
(*   src/src/renderer/image_renderer.rs  the renderer both contexts own.   *)
(*                                                                         *)
(* A behaviour exercises one pool (poolKind).  A context is the pool       *)
(* thread (Thread) or a worker process (0 .. NumWorkers-1).  Calls are     *)
(* numbered in the order in which render_tile is entered.                  *)
(***************************************************************************)
EXTENDS Integers, Sequences, FiniteSets, TLC

\* ------------------------------------------------------------- bounds
NumWorkers == 2
MaxCalls == 3
PipeCapacity == 1

\* --------------------------------------------------------------- sets
Thread == -1
Workers == 0 .. (NumWorkers - 1)
Contexts == {Thread} \cup Workers
Calls == 1 .. MaxCalls

\* The caller tasks: each has at most one render_tile call open.
Tasks == {"t1", "t2"}

Paths == {"a.json", "b.json", "missing.json"}
InitialFiles == {"a.json", "b.json"}
\* The paths that are valid UTF-8 (`path.to_str()` is Some): all of them.
Utf8Paths == Paths
\* The style file that some other process may remove while the pool runs.
Removable == {"a.json"}
None == "None"
NoCall == 0
NoCtx == Thread - 1

\* What the rendering engine hands back for one render of a 1x1 tile: the
\* byte count of the raw buffer and the dimensions its 8-byte header states.
RawOutputs ==
    { [len |-> 12, width |-> 1, height |-> 1],    \* header + 4 pixel bytes
      [len |-> 10, width |-> 1, height |-> 1],    \* pixel bytes cut short
      [len |-> 7, width |-> 0, height |-> 0] }    \* header cut short

VARIABLES
    poolKind,           \* "single" | "process": the pool this run constructs
    files,              \* the paths that are regular files right now
    started,            \* number of render_tile calls entered so far
    cpc,                \* call -> where the caller is inside render_tile
    creq,               \* call -> [style_path, tile]
    cid,                \* call -> request_id (process pool)
    cworker,            \* call -> worker_idx (process pool)
    chan,               \* call -> the one-shot: Empty or the value sent
    cres,               \* call -> what render_tile returned, or NoResult
    queue,              \* the mpsc channel of the serializing pool
    pc,                 \* context -> position in its loop
    cur,                \* context -> the request it is handling
    current_style,      \* context -> Option<PathBuf> (None or a path)
    style_specified,    \* context -> ImageRenderer::style_specified
    loaded,             \* context -> the style the engine holds
    inProgress,         \* context -> engine calls entered and not returned
    next_request_id,    \* MultiThreadedRenderPool::next_request_id
    next_worker_idx,    \* MultiThreadedRenderPool::next_worker_idx
    workersLock,        \* holder of the Mutex<Vec<Worker>>: a call, or NoCall
    pending,            \* worker -> set of <<id, call>>: Worker::pending
    stdin,              \* worker -> request frames in its input pipe
    stdout,             \* worker -> response frames in its output pipe
    resp,               \* worker -> the response it is about to write
    obs,                \* call -> what its context did for it (history)
    hist,               \* context -> the calls it handled, in order
    sends,              \* call -> number of values sent on its one-shot
    answeredBy,         \* call -> the worker whose reader resolved it
    overlapped,         \* some call was entered while another was open
    fault,              \* the failure this run may still suffer, or "none"
    parentAlive,        \* the process that owns the pool is running
    poolHeld,           \* the pool, or a clone of it, has not been dropped
    reader,             \* worker -> its reader thread: "running" | "exited"
    lookup,             \* call -> what read_responses found for its response
    corrupt,            \* worker -> the streams on which a decode has failed
    atExit,             \* what a worker's exit found (history)
    arrived,            \* worker -> the frames put on its input, in order
    written,            \* worker -> the IDs of the responses it wrote, in order
    pipeBytes,          \* direction -> the bytes in that pipe of one worker
    submitted,          \* direction -> the messages handed to the sender
    payloadsWritten,    \* direction -> the payloads written, in order
    payloadsRead,       \* direction -> the payloads the receiver read
    received,           \* direction -> what the receiver decoded them to
    once,               \* the Once of GLOBAL_POOL's LazyLock
    gpc,                \* caller -> where it is inside global_pool
    gref,               \* caller -> the pool its last global_pool call returned
    created,            \* number of pools, threads and backends ever created
    args,               \* process -> its launch arguments
    ppc,                \* process -> where it is in the hosting program
    ranNormal,          \* process -> it has run normal-mode logic (history)
    newCall,            \* process -> its call of MultiThreadedRenderPool::new
    asked,              \* whether `new` has built the pool, and its argument
    wlist,              \* the Vec<Worker>: position -> "running" | "failed"
    rrIdx,              \* next_worker_idx of that pool
    idxLock,            \* the Mutex<usize>: "free", its holder, or "poisoned"
    spc,                \* caller -> where it is in selecting a worker
    pick,               \* caller -> the worker_idx it selected last
    entered,            \* number of selections begun
    dpc,                \* caller -> where it is in dispatching a request
    holds,              \* agent -> the locks it holds, in the order taken
    dtable,             \* the one worker's pending table: the callers in it
    din,                \* the chunks in that worker's input pipe
    dout,               \* the chunks in that worker's output pipe
    wpos,               \* where the worker process is, and its request
    rpos,               \* where the reader thread is, and its response
    instream            \* every chunk written to the input pipe, in order

callVars == <<started, cpc, creq, cid, cworker, chan, cres>>
ctxVars == <<pc, cur, current_style, style_specified, loaded, inProgress>>
procVars == <<next_request_id, next_worker_idx, workersLock, pending,
              stdin, stdout, resp>>
histVars == <<obs, hist, sends, answeredBy, overlapped>>
faultVars == <<fault, parentAlive, poolHeld, reader, lookup, corrupt, atExit>>
wireVars == <<arrived, written>>
codecVars == <<pipeBytes, submitted, payloadsWritten, payloadsRead, received>>

\* The state of the pools, and the state of the studies made beside them.
poolVars == <<poolKind, files, queue, callVars, ctxVars, procVars, histVars,
              faultVars, wireVars>>
globalVars == <<once, gpc, gref, created>>
bootVars == <<args, ppc, ranNormal, newCall>>
selectVars == <<asked, wlist, rrIdx, idxLock, spc, pick, entered>>
dispatchVars == <<dpc, holds, dtable, din, dout, wpos, rpos, instream>>
studyVars == <<selectVars, dispatchVars>>
sideVars == <<codecVars, globalVars, bootVars, studyVars>>
vars == <<poolVars, sideVars>>

\* ------------------------------------------------------------- values
NoResult == [kind |-> "NoResult", detail |-> None, tile |-> 0, call |-> NoCall]
NoReq == [id |-> 0, style_path |-> None, tile |-> 0, call |-> NoCall,
          wire |-> "whole"]
NoObs == [ctx |-> NoCtx, cacheBefore |-> None, wasFile |-> FALSE,
          loadCalled |-> FALSE, ffiLoads |-> 0, ffiRenders |-> 0,
          rawOk |-> FALSE, cutShort |-> FALSE]

NoExit == [mid |-> FALSE, others |-> {}]

\* An Image: the style the engine held and the tile it was asked for.
ImageOf(style, tile, call) ==
    [kind |-> "Image", detail |-> style, tile |-> tile, call |-> call]

\* An error value of kind `kind`.
ErrorOf(kind, detail, call) ==
    [kind |-> kind, detail |-> detail, tile |-> 0, call |-> call]

\* The one-shot of a call that nobody has sent on yet.
Empty == [kind |-> "Empty", detail |-> None, tile |-> 0, call |-> NoCall]

\* The one-shot of a call whose sender was dropped without a send.
Closed == [kind |-> "Closed", detail |-> None, tile |-> 0, call |-> NoCall]

\* The ways a worker process ends: killed, or run_worker returned Ok / Err.
Exited == {"crashed", "returnedOk", "returnedErr"}

\* The styles named by the callers of a run that suffers a failure.
FaultPaths == {"a.json", "missing.json"}

\* The threads that call global_pool.
Callers == {"g1", "g2", "g3"}
NoPool == 0
NothingCreated == [pools |-> 0, threads |-> 0, backends |-> 0]
Uninitialized == [state |-> "incomplete", value |-> NoPool]

\* The processes of the hosting program: the one the user launches and the
\* ones spawned from it.
MaxProcesses == 4
Processes == 1 .. MaxProcesses
Root == 1
NoNew == [num_workers |-> 0, tried |-> 0, workers |-> <<>>, result |-> "none"]

\* The threads that take the parent's locks: the callers and the reader.
ReaderThread == "reader"
Agents == Callers \cup {ReaderThread}
NoCaller == "nobody"

\* No `new` has returned yet.
NotBuilt == [built |-> FALSE, num_workers |-> 0]

\* The two pipes of a worker, named after the worker's end of each.
Directions == {"stdin", "stdout"}

\* The failures a run may suffer (at most one per run).
FaultKinds == {"exit", "drop", "garbage", "parent", "panic"}

\* ---------------------------------------------------------- renderer
\* load_style_from_path without its is_file check.
LoadStyleFromPathUnchecked(path, fs) == "Ok"

\* ImageRenderer::load_style_from_path up to the engine call: the error it
\* returns, or "Ok" when it goes on to hand the style to the engine.
LoadStyleFromPath(path, fs) ==
    IF path \notin fs THEN "NotFound"
    ELSE IF path \notin Utf8Paths THEN "InvalidData"
    ELSE "Ok"

\* The raw buffer ends before its 8-byte dimension header does, or before
\* the width * height * 4 pixel bytes that header announces.
CutShort(raw) ==
    \/ raw.len < 8
    \/ raw.len - 8 < raw.width * raw.height * 4

\* A from_raw that looks at the header alone.
FromRawHeaderOnly(raw) == raw.len >= 8

\* Image::from_raw: TRUE iff the raw buffer decodes to an image.
FromRaw(raw) ==
    IF raw.len < 8 THEN FALSE
    ELSE raw.width * raw.height * 4 <= raw.len - 8

\* ImageRenderer<Tile>::render_tile after the engine returned `raw`.
RenderTileResult(raw, style, tile, call) ==
    IF FromRaw(raw) THEN ImageOf(style, tile, call)
    ELSE ErrorOf("RenderingError", "InvalidImageData", call)

\* A reader that takes the entry out of the table and sends nothing.
OneshotSendNothing(ch, call, value) == ch

\* oneshot::Sender::send(value) on the one-shot of `call`.
OneshotSend(ch, call, value) == [ch EXCEPT ![call] = value]

\* ------------------------------------------------- style cache (pool.rs)
\* A style check that reloads on every request.
StyleChangedAlways(cached, path) == TRUE

\* `current_style.as_ref() != Some(&request.style_path)`
StyleChanged(cached, path) == cached # path

\* A cache written before the load's result is looked at.
StyleAfterLoadEager(cached, path, outcome) == path

\* A cache that is never written.
StyleAfterLoadForgets(cached, path, outcome) == cached

\* The cache after load_style_from_path returned `outcome` for `path`.
StyleAfterLoad(cached, path, outcome) ==
    IF outcome = "Ok" THEN path ELSE cached

\* A failed style load that ends the loop (`break`).
AfterStyleErrorBreak == "stopped"

\* A failed style load that is answered and falls through to the render.
AfterStyleErrorRenders == "render"

\* Where the pool thread goes after answering a failed style load (`continue`).
AfterStyleError == "idle"

\* A channel that hands out the request sent last first.
QueueSendInFront(q, request) == <<request>> \o q

\* `tx.send(request)` on the mpsc channel: the request goes to the back.
QueueSend(q, request) == Append(q, request)

\* A channel that holds one request at most (a sync_channel(1)).
QueueHasRoomForOne(q) == Len(q) < 1

\* `mpsc::channel()` is unbounded: a send never waits for room.
QueueHasRoom(q) == TRUE

\* A channel that accepts requests after its receiver is gone.
ChannelClosedNever == FALSE

\* `self.rendering_requests.send(..)` fails: the thread, and the receiver it
\* owned, are gone.
ChannelClosed == pc[Thread] = "stopped"

\* `response_rx.await` mapped by map_err: a one-shot whose sender was dropped
\* gives `failed`, a sent value is returned as it is.
AwaitResult(value, failed, call) ==
    IF value.kind = "Closed" THEN ErrorOf(failed, None, call) ELSE value

\* Requests taken whenever one is queued, also in the middle of a call.
CanReceiveAnytime(ctx) == TRUE

\* `while let Ok(request) = rx.recv()`: the thread takes a request only at
\* the head of its loop.
CanReceive(ctx) == pc[ctx] = "idle"

\* ---------------------------------------------------------------- Init
\* The state of a pool after construction, with no call made yet.
PoolStart ==
    /\ files = InitialFiles
    /\ started = 0
    /\ cpc = [n \in Calls |-> "new"]
    /\ creq = [n \in Calls |-> NoReq]
    /\ cid = [n \in Calls |-> 0]
    /\ cworker = [n \in Calls |-> 0]
    /\ chan = [n \in Calls |-> Empty]
    /\ cres = [n \in Calls |-> NoResult]
    /\ queue = <<>>
    /\ pc = [c \in Contexts |-> "idle"]
    /\ cur = [c \in Contexts |-> NoReq]
    /\ current_style = [c \in Contexts |-> None]
    /\ style_specified = [c \in Contexts |-> FALSE]
    /\ loaded = [c \in Contexts |-> None]
    /\ inProgress = [c \in Contexts |-> 0]
    /\ next_request_id = 0
    /\ next_worker_idx = 0
    /\ workersLock = NoCall
    /\ pending = [w \in Workers |-> {}]
    /\ stdin = [w \in Workers |-> <<>>]
    /\ stdout = [w \in Workers |-> <<>>]
    /\ resp = [w \in Workers |-> NoResult]
    /\ obs = [n \in Calls |-> NoObs]
    /\ hist = [c \in Contexts |-> <<>>]
    /\ sends = [n \in Calls |-> 0]
    /\ answeredBy = [n \in Calls |-> NoCtx]
    /\ overlapped = FALSE
    /\ parentAlive = TRUE
    /\ poolHeld = TRUE
    /\ reader = [w \in Workers |-> "running"]
    /\ lookup = [n \in Calls |-> "none"]
    /\ corrupt = [w \in Workers |-> {}]
    /\ atExit = NoExit
    /\ arrived = [w \in Workers |-> <<>>]
    /\ written = [w \in Workers |-> <<>>]

\* Nothing has crossed the pipes studied byte by byte.
CodecStart ==
    /\ pipeBytes = [d \in Directions |-> <<>>]
    /\ submitted = [d \in Directions |-> <<>>]
    /\ payloadsWritten = [d \in Directions |-> <<>>]
    /\ payloadsRead = [d \in Directions |-> <<>>]
    /\ received = [d \in Directions |-> <<>>]

\* Nobody has called global_pool: GLOBAL_POOL is not initialized.
GlobalStart ==
    /\ once = Uninitialized
    /\ gpc = [g \in Callers |-> "out"]
    /\ gref = [g \in Callers |-> NoPool]
    /\ created = NothingCreated

\* No process of the hosting program is looked at.
BootStart ==
    /\ args = [p \in Processes |-> <<>>]
    /\ ppc = [p \in Processes |-> "absent"]
    /\ ranNormal = [p \in Processes |-> FALSE]
    /\ newCall = [p \in Processes |-> NoNew]

\* No pool of a chosen size has been built.
SelectStart ==
    /\ asked = NotBuilt
    /\ wlist = <<>>
    /\ rrIdx = 0
    /\ idxLock = "free"
    /\ spc = [g \in Callers |-> "out"]
    /\ pick = [g \in Callers |-> 0]
    /\ entered = 0

\* The state after construction, but for the pool built and the failure ahead.
\* Nobody dispatches to the worker looked at lock by lock.
DispatchStart ==
    /\ dpc = [g \in Callers |-> "out"]
    /\ holds = [a \in Agents |-> <<>>]
    /\ dtable = {}
    /\ din = <<>>
    /\ dout = <<>>
    /\ wpos = [at |-> "readLen", of |-> NoCaller]
    /\ rpos = [at |-> "readLen", of |-> NoCaller]
    /\ instream = <<>>

StudyStart == SelectStart /\ DispatchStart

Start == PoolStart /\ CodecStart /\ GlobalStart /\ BootStart /\ StudyStart

Init ==
    /\ poolKind \in {"single", "process"}
    /\ fault = "none"
    /\ Start

\* The calls that have entered render_tile and not returned from it.
OpenCalls == {n \in Calls : cpc[n] \notin {"new", "done", "dropped", "gone"}}

SomeCallOpen == OpenCalls # {}

\* A task is free to enter render_tile.
TaskFree == Cardinality(OpenCalls) < Cardinality(Tasks)

\* The history entry of a request whose style step ran in context c:
\* whether load_style_from_path was called, and the engine loads it made.
Seen(c, req, called, engineLoads) ==
    [NoObs EXCEPT !.ctx = c,
                  !.cacheBefore = current_style[c],
                  !.wasFile = (req.style_path \in files),
                  !.loadCalled = called,
                  !.ffiLoads = engineLoads]

\* ------------------------------------------------------- environment
\* Another process removes a style file from the disk.
DeleteFile(p) ==
    /\ p \in files
    /\ files' = files \ {p}
    /\ UNCHANGED <<poolKind, queue, callVars, ctxVars, procVars, histVars,
                   faultVars, wireVars, sideVars>>

\* ------------------------------------ SingleThreadedRenderPool (pool.rs)
\* render_tile up to the await: make the one-shot, send the request on the
\* mpsc channel.  A send to a stopped thread fails.
SRenderTile(p) ==
    LET n == started + 1 IN
    /\ poolKind = "single"
    /\ UNCHANGED sideVars
    /\ UNCHANGED wireVars
    /\ UNCHANGED faultVars
    /\ started < MaxCalls
    /\ TaskFree
    /\ ChannelClosed \/ QueueHasRoom(queue)
    /\ started' = n
    /\ creq' = [creq EXCEPT ![n] = [NoReq EXCEPT !.style_path = p, !.tile = n,
                                                 !.call = n]]
    /\ overlapped' = (overlapped \/ SomeCallOpen)
    /\ IF ChannelClosed
       THEN /\ cpc' = [cpc EXCEPT ![n] = "done"]
            /\ cres' = [cres EXCEPT ![n] = ErrorOf("FailedToSendRequest", None, n)]
            /\ UNCHANGED queue
       ELSE /\ cpc' = [cpc EXCEPT ![n] = "await"]
            /\ queue' = QueueSend(queue, creq'[n])
            /\ UNCHANGED cres
    /\ UNCHANGED <<poolKind, files, cid, cworker, chan, ctxVars, procVars,
                   obs, hist, sends, answeredBy>>

\* `response_rx.await`: the caller resumes with the value sent to it.
SAwait(n) ==
    /\ poolKind = "single"
    /\ UNCHANGED sideVars
    /\ UNCHANGED wireVars
    /\ UNCHANGED faultVars
    /\ cpc[n] = "await"
    /\ chan[n] # Empty
    /\ cres' = [cres EXCEPT ![n] =
                  AwaitResult(chan[n], "FailedToReceiveResponse", n)]
    /\ cpc' = [cpc EXCEPT ![n] = "done"]
    /\ UNCHANGED <<poolKind, files, queue, started, creq, cid, cworker, chan,
                   ctxVars, procVars, histVars>>

\* A channel whose receiver leaves the request it returns at the head.
QueueAfterRecvKeeps(q) == q

\* The mpsc channel after `rx.recv()` returned its head: the request has
\* moved to the receiver.
QueueAfterRecv(q) == Tail(q)

\* The worker thread: `rx.recv()` returns the next request.
SRecv ==
    /\ poolKind = "single"
    /\ UNCHANGED sideVars
    /\ UNCHANGED wireVars
    /\ UNCHANGED faultVars
    /\ CanReceive(Thread)
    /\ queue # <<>>
    /\ cur' = [cur EXCEPT ![Thread] = Head(queue)]
    /\ queue' = QueueAfterRecv(queue)
    /\ pc' = [pc EXCEPT ![Thread] = "style"]
    /\ hist' = [hist EXCEPT ![Thread] = Append(@, Head(queue).call)]
    /\ UNCHANGED <<poolKind, files, callVars, current_style, style_specified,
                   loaded, inProgress, procVars, obs, sends, answeredBy,
                   overlapped>>

\* The worker thread: the style check, and load_style_from_path up to the
\* engine call.  A failed load is answered at once.
SStyle ==
    LET req == cur[Thread]
        n == req.call
        changed == StyleChanged(current_style[Thread], req.style_path)
        outcome == LoadStyleFromPath(req.style_path, files)
    IN
    /\ poolKind = "single"
    /\ UNCHANGED sideVars
    /\ UNCHANGED wireVars
    /\ UNCHANGED faultVars
    /\ pc[Thread] = "style"
    /\ IF ~changed
       THEN /\ obs' = [obs EXCEPT ![n] = Seen(Thread, req, FALSE, 0)]
            /\ pc' = [pc EXCEPT ![Thread] = "render"]
            /\ UNCHANGED <<chan, sends, cur, current_style, inProgress>>
       ELSE IF outcome # "Ok"
       THEN /\ obs' = [obs EXCEPT ![n] = Seen(Thread, req, TRUE, 0)]
            /\ chan' = OneshotSend(chan, n, ErrorOf("IOError", outcome, n))
            /\ sends' = [sends EXCEPT ![n] = @ + 1]
            /\ current_style' = [current_style EXCEPT ![Thread] =
                                   StyleAfterLoad(@, req.style_path, outcome)]
            /\ pc' = [pc EXCEPT ![Thread] = AfterStyleError]
            /\ cur' = [cur EXCEPT ![Thread] = NoReq]
            /\ UNCHANGED inProgress
       ELSE /\ obs' = [obs EXCEPT ![n] = Seen(Thread, req, TRUE, 1)]
            /\ inProgress' = [inProgress EXCEPT ![Thread] = @ + 1]
            /\ pc' = [pc EXCEPT ![Thread] = "loading"]
            /\ UNCHANGED <<chan, sends, cur, current_style>>
    /\ UNCHANGED <<poolKind, files, queue, started, cpc, creq, cid, cworker,
                   cres, style_specified, loaded, procVars, hist, answeredBy,
                   overlapped>>

\* The worker thread: the engine has taken the style; the cache is written.
SLoadDone ==
    LET req == cur[Thread] IN
    /\ poolKind = "single"
    /\ UNCHANGED sideVars
    /\ UNCHANGED wireVars
    /\ UNCHANGED faultVars
    /\ pc[Thread] = "loading"
    /\ inProgress' = [inProgress EXCEPT ![Thread] = @ - 1]
    /\ style_specified' = [style_specified EXCEPT ![Thread] = TRUE]
    /\ loaded' = [loaded EXCEPT ![Thread] = req.style_path]
    /\ current_style' = [current_style EXCEPT ![Thread] =
                           StyleAfterLoad(@, req.style_path, "Ok")]
    /\ pc' = [pc EXCEPT ![Thread] = "render"]
    /\ UNCHANGED <<poolKind, files, queue, callVars, cur, procVars, histVars>>

\* The worker thread: render_tile is entered; without a style it fails
\* before the engine is called.
SRenderBegin ==
    LET req == cur[Thread]
        n == req.call
    IN
    /\ poolKind = "single"
    /\ UNCHANGED sideVars
    /\ UNCHANGED wireVars
    /\ UNCHANGED faultVars
    /\ pc[Thread] = "render"
    /\ IF ~style_specified[Thread]
       THEN /\ chan' = OneshotSend(chan, n,
                          ErrorOf("RenderingError", "StyleNotSpecified", n))
            /\ sends' = [sends EXCEPT ![n] = @ + 1]
            /\ pc' = [pc EXCEPT ![Thread] = "idle"]
            /\ cur' = [cur EXCEPT ![Thread] = NoReq]
            /\ UNCHANGED <<inProgress, obs>>
       ELSE /\ inProgress' = [inProgress EXCEPT ![Thread] = @ + 1]
            /\ obs' = [obs EXCEPT ![n] = [@ EXCEPT !.ffiRenders = @ + 1]]
            /\ pc' = [pc EXCEPT ![Thread] = "rendering"]
            /\ UNCHANGED <<chan, sends, cur>>
    /\ UNCHANGED <<poolKind, files, queue, started, cpc, creq, cid, cworker,
                   cres, current_style, style_specified, loaded, procVars,
                   hist, answeredBy, overlapped>>

\* The worker thread: the engine returns its raw buffer; the result is sent
\* on the request's one-shot and the loop starts over.
SRenderEnd(raw) ==
    LET req == cur[Thread]
        n == req.call
    IN
    /\ poolKind = "single"
    /\ UNCHANGED sideVars
    /\ UNCHANGED wireVars
    /\ UNCHANGED faultVars
    /\ pc[Thread] = "rendering"
    /\ inProgress' = [inProgress EXCEPT ![Thread] = @ - 1]
    /\ chan' = OneshotSend(chan, n,
                  RenderTileResult(raw, loaded[Thread], req.tile, n))
    /\ sends' = [sends EXCEPT ![n] = @ + 1]
    /\ obs' = [obs EXCEPT ![n] = [@ EXCEPT !.rawOk = FromRaw(raw),
                                            !.cutShort = CutShort(raw)]]
    /\ pc' = [pc EXCEPT ![Thread] = "idle"]
    /\ cur' = [cur EXCEPT ![Thread] = NoReq]
    /\ UNCHANGED <<poolKind, files, queue, started, cpc, creq, cid, cworker,
                   cres, current_style, style_specified, loaded, procVars,
                   hist, answeredBy, overlapped>>

\* A thread whose end drops the request in hand and leaves the channel's
\* receiver, with the requests queued in it, alive.
DroppedWithThreadInHandOnly(inHand, q) == {inHand.call}

\* The calls whose one-shot senders are dropped when the thread's closure
\* unwinds: `request` in hand, and those of the requests still in `rx`.
DroppedWithThread(inHand, q) ==
    {inHand.call} \cup {q[i].call : i \in 1 .. Len(q)}

\* The worker thread ends inside renderer code (a panic unwinds it): the
\* request it holds and the receiver with the queued requests are dropped,
\* and with them their one-shot senders.
SThreadPanics ==
    LET lost == DroppedWithThread(cur[Thread], queue)
    IN
    /\ poolKind = "single"
    /\ UNCHANGED sideVars
    /\ UNCHANGED wireVars
    /\ fault = "panic"
    /\ pc[Thread] \in {"loading", "rendering"}
    /\ fault' = "none"
    /\ pc' = [pc EXCEPT ![Thread] = "stopped"]
    /\ cur' = [cur EXCEPT ![Thread] = NoReq]
    /\ inProgress' = [inProgress EXCEPT ![Thread] = 0]
    /\ queue' = <<>>
    /\ chan' = [n \in Calls |-> IF n \in lost THEN Closed ELSE chan[n]]
    /\ UNCHANGED <<poolKind, files, started, cpc, creq, cid, cworker, cres,
                   current_style, style_specified, loaded, procVars, histVars,
                   parentAlive, poolHeld, reader, lookup, corrupt, atExit>>

\* The steps of the serializing pool whose callers name the styles `styles`.
NextSingleOn(styles) ==
    \/ \E p \in styles : SRenderTile(p)
    \/ \E n \in Calls : SAwait(n)
    \/ SRecv
    \/ SStyle
    \/ SLoadDone
    \/ SRenderBegin
    \/ \E raw \in RawOutputs : SRenderEnd(raw)

NextSingle == NextSingleOn(Paths)

\* ------------------------- MultiThreadedRenderPool (pool/multi_threaded.rs)
\* A request ID that is read and never advanced.
NextRequestIdStuck(id) == id

\* A request ID kept in a counter one bit wide.
NextRequestIdNarrow(id) == (id + 1) % 2

\* `*id = id.wrapping_add(1)` on a u64; the calls of a run stay far below 2^64.
NextRequestId(id) == id + 1

\* A round-robin index that is read and never advanced.
NextWorkerIdxStuck(idx, num_workers) == idx

\* `*idx = (*idx + 1) % num_workers`
NextWorkerIdx(idx, num_workers) == (idx + 1) % num_workers

\* HashMap::insert(id, response_tx): an entry with the same key is replaced.
PendingInsert(table, id, call) ==
    {e \in table : e[1] # id} \cup {<<id, call>>}

\* A reader that resolves some pending entry, whatever its ID.
PendingLookupAny(table, id) ==
    IF table = {} THEN {} ELSE {CHOOSE e \in table : TRUE}

\* HashMap::remove(&id): the entries `remove` returns (none or one).
PendingLookup(table, id) == {e \in table : e[1] = id}

\* The frame send_request writes for a request.
WorkerRequest(id, req) ==
    [id |-> id, style_path |-> req.style_path, tile |-> req.tile,
     call |-> req.call, wire |-> "whole"]

\* The frame send_response writes for a response.
WorkerResponse(id, result) == [id |-> id, result |-> result, wire |-> "whole"]

\* Bytes that are a frame (a length and that many bytes) and no message:
\* bincode::deserialize fails on them.
GarbageRequest == [NoReq EXCEPT !.wire = "undecodable"]
GarbageResponse == [id |-> 0, result |-> NoResult, wire |-> "undecodable"]

\* The length prefix of a request whose payload was never written.
TruncatedRequest == [NoReq EXCEPT !.wire = "truncated"]

\* bincode::deserialize(&buffer) succeeds.
Decodes(frame) == frame.wire = "whole"

\* Display of the errors load_style_from_path and render_tile return.
Display(err) ==
    CASE err = "NotFound" -> "Path is not a file"
      [] err = "InvalidData" -> "Path is not valid UTF-8"
      [] err = "StyleNotSpecified" -> "Style must be specified to render a tile"
      [] err = "InvalidImageData" -> "Invalid image data received from renderer"
      [] OTHER -> err

\* Image::to_raw_bytes: the bytes of an image, dimension header first.
ToRawBytes(image) == [image EXCEPT !.kind = "RawBytes"]

\* Image::from_raw_bytes: the image of such bytes.
FromRawBytes(data) == [data EXCEPT !.kind = "Image"]

\* run_worker: the `result` of a WorkerResponse for what render_tile returned.
WorkerResult(r) ==
    IF r.kind = "Image" THEN ToRawBytes(r)
    ELSE ErrorOf("Err", "Rendering error: " \o Display(r.detail), r.call)

\* read_responses: the value sent to the caller for a response's `result`.
DecodeResult(result) ==
    IF result.kind = "RawBytes" THEN FromRawBytes(result)
    ELSE ErrorOf("WorkerError", result.detail, result.call)

\* render_tile: take the next request ID.
MRenderTile(p) ==
    LET n == started + 1 IN
    /\ poolKind = "process"
    /\ UNCHANGED sideVars
    /\ UNCHANGED wireVars
    /\ UNCHANGED faultVars
    /\ parentAlive
    /\ poolHeld
    /\ started < MaxCalls
    /\ TaskFree
    /\ started' = n
    /\ creq' = [creq EXCEPT ![n] = [NoReq EXCEPT !.style_path = p, !.tile = n,
                                                 !.call = n]]
    /\ cid' = [cid EXCEPT ![n] = next_request_id]
    /\ next_request_id' = NextRequestId(next_request_id)
    /\ cpc' = [cpc EXCEPT ![n] = "select"]
    /\ overlapped' = (overlapped \/ SomeCallOpen)
    /\ UNCHANGED <<poolKind, files, queue, cworker, chan, cres, ctxVars,
                   next_worker_idx, workersLock, pending, stdin, stdout, resp,
                   obs, hist, sends, answeredBy>>

\* render_tile: select the next worker.  The worker list is locked for its
\* length while the index is held.
MSelect(n) ==
    /\ poolKind = "process"
    /\ UNCHANGED sideVars
    /\ UNCHANGED wireVars
    /\ UNCHANGED faultVars
    /\ cpc[n] = "select"
    /\ workersLock = NoCall
    /\ cworker' = [cworker EXCEPT ![n] = next_worker_idx]
    /\ next_worker_idx' = NextWorkerIdx(next_worker_idx, NumWorkers)
    /\ cpc' = [cpc EXCEPT ![n] = "send"]
    /\ UNCHANGED <<poolKind, files, queue, started, creq, cid, chan, cres,
                   ctxVars, next_request_id, workersLock, pending, stdin,
                   stdout, resp, histVars>>

\* render_tile: lock the worker list; send_request registers the pending
\* response.
MSendLock(n) ==
    /\ poolKind = "process"
    /\ UNCHANGED sideVars
    /\ UNCHANGED wireVars
    /\ UNCHANGED faultVars
    /\ cpc[n] = "send"
    /\ workersLock = NoCall
    /\ workersLock' = n
    /\ pending' = [pending EXCEPT ![cworker[n]] = PendingInsert(@, cid[n], n)]
    /\ cpc' = [cpc EXCEPT ![n] = "write"]
    /\ UNCHANGED <<poolKind, files, queue, started, creq, cid, cworker, chan,
                   cres, ctxVars, next_request_id, next_worker_idx, stdin,
                   stdout, resp, histVars>>

\* send_request: write the frame to the worker's stdin (blocks while the
\* pipe is full; fails when the worker has gone and `?` returns the error,
\* leaving the pending entry in place), then the worker list is unlocked.
MWrite(n) ==
    LET w == cworker[n] IN
    /\ poolKind = "process"
    /\ UNCHANGED sideVars
    /\ UNCHANGED faultVars
    /\ cpc[n] = "write"
    /\ workersLock' = NoCall
    /\ IF pc[w] \in Exited
       THEN /\ cres' = [cres EXCEPT ![n] = ErrorOf("IOError", "BrokenPipe", n)]
            /\ cpc' = [cpc EXCEPT ![n] = "done"]
            /\ UNCHANGED <<stdin, arrived>>
       ELSE /\ Len(stdin[w]) < PipeCapacity
            /\ stdin' = [stdin EXCEPT ![w] =
                           Append(@, WorkerRequest(cid[n], creq[n]))]
            /\ arrived' = [arrived EXCEPT ![w] =
                             Append(@, WorkerRequest(cid[n], creq[n]))]
            /\ cpc' = [cpc EXCEPT ![n] = "await"]
            /\ UNCHANGED cres
    /\ UNCHANGED written
    /\ UNCHANGED <<poolKind, files, queue, started, creq, cid, cworker, chan,
                   ctxVars, next_request_id, next_worker_idx, pending,
                   stdout, resp, histVars>>

\* `response_rx.await`: the caller resumes with the value sent to it.
MAwait(n) ==
    /\ poolKind = "process"
    /\ UNCHANGED sideVars
    /\ UNCHANGED wireVars
    /\ UNCHANGED faultVars
    /\ cpc[n] = "await"
    /\ chan[n] # Empty
    /\ cres' = [cres EXCEPT ![n] =
                  AwaitResult(chan[n], "FailedToReceiveResponse", n)]
    /\ cpc' = [cpc EXCEPT ![n] = "done"]
    /\ UNCHANGED <<poolKind, files, queue, started, creq, cid, cworker, chan,
                   ctxVars, procVars, histVars>>

\* ------------------------------------------------- style cache (run_worker)
\* A worker that loads a style only while it has none.
WorkerStyleChangedOnlyFirst(cached, path) == cached = None

\* `current_style.as_ref() != Some(&request.style_path)`
WorkerStyleChanged(cached, path) == cached # path

\* A worker whose cache takes the path before the load's result is known.
WorkerStyleAfterLoadEager(cached, path, outcome) == path

\* The worker's cache after load_style_from_path returned `outcome`.
WorkerStyleAfterLoad(cached, path, outcome) ==
    IF outcome = "Ok" THEN path ELSE cached

\* A worker loop that is left after the first response.
AfterResponseReturns == "returnedOk"

\* Where run_worker goes once a response is written (`continue`, loop end).
AfterResponse == "idle"

\* A request loop that ends at the first frame it cannot decode.
AfterDecodeErrorBreak == "returnedOk"

\* Where run_worker goes after a frame that fails to decode (`continue`).
AfterDecodeError == "idle"

\* run_worker: read one frame from stdin and decode it; a frame that does
\* not decode is reported on stderr and skipped.
WRead(w) ==
    LET frame == Head(stdin[w]) IN
    /\ poolKind = "process"
    /\ UNCHANGED sideVars
    /\ UNCHANGED wireVars
    /\ pc[w] = "idle"
    /\ stdin[w] # <<>>
    /\ frame.wire # "truncated"
    /\ stdin' = [stdin EXCEPT ![w] = Tail(@)]
    /\ IF Decodes(frame)
       THEN /\ cur' = [cur EXCEPT ![w] = frame]
            /\ pc' = [pc EXCEPT ![w] = "style"]
            /\ hist' = [hist EXCEPT ![w] = Append(@, frame.call)]
            /\ UNCHANGED corrupt
       ELSE /\ pc' = [pc EXCEPT ![w] = AfterDecodeError]
            /\ corrupt' = [corrupt EXCEPT ![w] = @ \cup {"stdin"}]
            /\ UNCHANGED <<cur, hist>>
    /\ UNCHANGED <<poolKind, files, queue, callVars, current_style,
                   style_specified, loaded, inProgress, next_request_id,
                   next_worker_idx, workersLock, pending, stdout, resp, obs,
                   sends, answeredBy, overlapped, fault, parentAlive,
                   poolHeld, reader,
                   lookup, atExit>>

\* The write ends of the workers' input pipes are closed: the parent has
\* ended, or has dropped the pool and with it every Worker's ChildStdin.
InputClosed == ~parentAlive \/ ~poolHeld

\* A request loop that tries again when read_exact fails.
AfterReadErrorRetries == "idle"

\* Where run_worker goes when read_exact fails: `break`, then `Ok(())`.
AfterReadError == "returnedOk"

\* run_worker: read_exact fails (end of input after the parent closed the
\* pipe, or a frame cut short): `break`, and run_worker returns Ok(()).
WReadFails(w) ==
    /\ poolKind = "process"
    /\ UNCHANGED sideVars
    /\ UNCHANGED wireVars
    /\ UNCHANGED faultVars
    /\ pc[w] = "idle"
    /\ \/ stdin[w] = <<>> /\ InputClosed
       \/ stdin[w] # <<>> /\ Head(stdin[w]).wire = "truncated"
    /\ pc' = [pc EXCEPT ![w] = AfterReadError]
    /\ stdin' = [stdin EXCEPT ![w] = <<>>]
    /\ UNCHANGED <<poolKind, files, queue, callVars, cur, current_style,
                   style_specified, loaded, inProgress, next_request_id,
                   next_worker_idx, workersLock, pending, stdout, resp,
                   histVars>>

\* run_worker: the style check, and load_style_from_path up to the engine
\* call.  A failed load becomes the response.
WStyle(w) ==
    LET req == cur[w]
        n == req.call
        changed == WorkerStyleChanged(current_style[w], req.style_path)
        outcome == LoadStyleFromPath(req.style_path, files)
    IN
    /\ poolKind = "process"
    /\ UNCHANGED sideVars
    /\ UNCHANGED wireVars
    /\ UNCHANGED faultVars
    /\ pc[w] = "style"
    /\ IF ~changed
       THEN /\ obs' = [obs EXCEPT ![n] = Seen(w, req, FALSE, 0)]
            /\ pc' = [pc EXCEPT ![w] = "render"]
            /\ UNCHANGED <<resp, current_style, inProgress>>
       ELSE IF outcome # "Ok"
       THEN /\ obs' = [obs EXCEPT ![n] = Seen(w, req, TRUE, 0)]
            /\ resp' = [resp EXCEPT ![w] =
                   ErrorOf("Err", "Failed to load style: " \o Display(outcome), n)]
            /\ current_style' = [current_style EXCEPT ![w] =
                                   WorkerStyleAfterLoad(@, req.style_path, outcome)]
            /\ pc' = [pc EXCEPT ![w] = "respond"]
            /\ UNCHANGED inProgress
       ELSE /\ obs' = [obs EXCEPT ![n] = Seen(w, req, TRUE, 1)]
            /\ inProgress' = [inProgress EXCEPT ![w] = @ + 1]
            /\ pc' = [pc EXCEPT ![w] = "loading"]
            /\ UNCHANGED <<resp, current_style>>
    /\ UNCHANGED <<poolKind, files, queue, callVars, cur, style_specified,
                   loaded, next_request_id, next_worker_idx, workersLock,
                   pending, stdin, stdout, hist, sends, answeredBy, overlapped>>

\* run_worker: the engine has taken the style; the cache is written.
WLoadDone(w) ==
    LET req == cur[w] IN
    /\ poolKind = "process"
    /\ UNCHANGED sideVars
    /\ UNCHANGED wireVars
    /\ UNCHANGED faultVars
    /\ pc[w] = "loading"
    /\ inProgress' = [inProgress EXCEPT ![w] = @ - 1]
    /\ style_specified' = [style_specified EXCEPT ![w] = TRUE]
    /\ loaded' = [loaded EXCEPT ![w] = req.style_path]
    /\ current_style' = [current_style EXCEPT ![w] =
                           WorkerStyleAfterLoad(@, req.style_path, "Ok")]
    /\ pc' = [pc EXCEPT ![w] = "render"]
    /\ UNCHANGED <<poolKind, files, queue, callVars, cur, procVars, histVars>>

\* run_worker: render_tile is entered; without a style it fails before the
\* engine is called.
WRenderBegin(w) ==
    LET req == cur[w]
        n == req.call
    IN
    /\ poolKind = "process"
    /\ UNCHANGED sideVars
    /\ UNCHANGED wireVars
    /\ UNCHANGED faultVars
    /\ pc[w] = "render"
    /\ IF ~style_specified[w]
       THEN /\ resp' = [resp EXCEPT ![w] = WorkerResult(
                          ErrorOf("RenderingError", "StyleNotSpecified", n))]
            /\ pc' = [pc EXCEPT ![w] = "respond"]
            /\ UNCHANGED <<inProgress, obs>>
       ELSE /\ inProgress' = [inProgress EXCEPT ![w] = @ + 1]
            /\ obs' = [obs EXCEPT ![n] = [@ EXCEPT !.ffiRenders = @ + 1]]
            /\ pc' = [pc EXCEPT ![w] = "rendering"]
            /\ UNCHANGED resp
    /\ UNCHANGED <<poolKind, files, queue, callVars, cur, current_style,
                   style_specified, loaded, next_request_id, next_worker_idx,
                   workersLock, pending, stdin, stdout, hist, sends,
                   answeredBy, overlapped>>

\* run_worker: the engine returns its raw buffer; the response is built.
WRenderEnd(w, raw) ==
    LET req == cur[w] IN
    /\ poolKind = "process"
    /\ UNCHANGED sideVars
    /\ UNCHANGED wireVars
    /\ UNCHANGED faultVars
    /\ pc[w] = "rendering"
    /\ inProgress' = [inProgress EXCEPT ![w] = @ - 1]
    /\ resp' = [resp EXCEPT ![w] = WorkerResult(
                  RenderTileResult(raw, loaded[w], req.tile, req.call))]
    /\ obs' = [obs EXCEPT ![req.call] = [@ EXCEPT !.rawOk = FromRaw(raw),
                                                   !.cutShort = CutShort(raw)]]
    /\ pc' = [pc EXCEPT ![w] = "respond"]
    /\ UNCHANGED <<poolKind, files, queue, callVars, cur, current_style,
                   style_specified, loaded, next_request_id, next_worker_idx,
                   workersLock, pending, stdin, stdout, hist, sends,
                   answeredBy, overlapped>>

\* Where run_worker goes when send_response fails: `?` returns the error.
AfterWriteError == "returnedErr"

\* A response that carries the number of the worker's turn, not the request's ID.
ResponseIdByTurn(request) == request.tile

\* `WorkerResponse { id: request.id, .. }`: the ID a response carries.
ResponseId(request) == request.id

\* send_response: write the response frame, carrying the request's ID, to
\* stdout (blocks while the pipe is full; fails once nobody reads the pipe).
WRespond(w) ==
    /\ poolKind = "process"
    /\ UNCHANGED sideVars
    /\ UNCHANGED faultVars
    /\ pc[w] = "respond"
    /\ IF reader[w] = "exited"
       THEN /\ pc' = [pc EXCEPT ![w] = AfterWriteError]
            /\ UNCHANGED <<stdout, written>>
       ELSE /\ Len(stdout[w]) < PipeCapacity
            /\ stdout' = [stdout EXCEPT ![w] =
                            Append(@, WorkerResponse(ResponseId(cur[w]), resp[w]))]
            /\ written' = [written EXCEPT ![w] = Append(@, ResponseId(cur[w]))]
            /\ pc' = [pc EXCEPT ![w] = AfterResponse]
    /\ UNCHANGED arrived
    /\ resp' = [resp EXCEPT ![w] = NoResult]
    /\ cur' = [cur EXCEPT ![w] = NoReq]
    /\ UNCHANGED <<poolKind, files, queue, callVars, current_style,
                   style_specified, loaded, inProgress, next_request_id,
                   next_worker_idx, workersLock, pending, stdin, histVars>>

\* A reader thread that serves every worker: the end of one stream ends it.
ReadersStoppedByAny(w) == Workers

\* The reader threads that end when worker w's output reaches its end: the
\* one spawned for w.
ReadersStoppedBy(w) == {w}

\* A reader that drops the senders it still holds when its stream ends.
SendersDroppedAtEofAll(table) == table

\* The pending entries whose senders are dropped when the reader thread of
\* their worker ends: none, the Worker keeps the table.
SendersDroppedAtEof(table) == {}

\* A table that loses the entry of a call whose future is dropped.
PendingAfterDropRemoves(table, id) == {e \in table : e[1] # id}

\* The pending table after the caller dropped the future of request `id`:
\* only the receiver is dropped, the table is not touched.
PendingAfterDrop(table, id) == table

\* The receiver of call n's one-shot exists: the caller is inside render_tile.
ReceiverAlive(n) == cpc[n] \notin {"done", "dropped", "gone"}

\* A reader thread that ends at the first frame it cannot decode.
ReaderAfterDecodeErrorBreak == "exited"

\* The reader thread after a frame that fails to decode (`continue`).
ReaderAfterDecodeError == "running"

\* One reader thread for all workers, reading their pipes in turn: it gets to
\* worker w's frame only past the workers before w.
ReaderCanReadInTurn(w) ==
    stdout[w] # <<>> /\ \A v \in Workers : v < w => stdout[v] # <<>>

\* read_exact returns in worker w's reader thread: the thread was spawned
\* for w alone and waits on w's pipe only.
ReaderCanRead(w) == stdout[w] # <<>>

\* read_responses: read one response frame of worker w and decode it (a
\* frame that does not decode is skipped), remove the pending entry of its
\* ID and send the decoded result on that entry's one-shot; a send to a
\* dropped receiver fails and is ignored.
ReadResponses(w) ==
    LET response == Head(stdout[w])
        found == PendingLookup(pending[w], response.id)
    IN
    /\ poolKind = "process"
    /\ UNCHANGED sideVars
    /\ UNCHANGED wireVars
    /\ reader[w] = "running"
    /\ ReaderCanRead(w)
    /\ stdout' = [stdout EXCEPT ![w] = Tail(@)]
    /\ IF ~Decodes(response)
       THEN /\ corrupt' = [corrupt EXCEPT ![w] = @ \cup {"stdout"}]
            /\ reader' = [reader EXCEPT ![w] = ReaderAfterDecodeError]
            /\ UNCHANGED <<pending, chan, sends, answeredBy, lookup>>
       ELSE /\ pending' = [pending EXCEPT ![w] = @ \ found]
            /\ lookup' = [lookup EXCEPT ![response.result.call] =
                             IF found = {} THEN "missing" ELSE "found"]
            /\ UNCHANGED <<corrupt, reader>>
            /\ IF found = {}
               THEN UNCHANGED <<chan, sends, answeredBy>>
               ELSE LET n == (CHOOSE e \in found : TRUE)[2] IN
                    IF ReceiverAlive(n)
                    THEN /\ chan' = OneshotSend(chan, n,
                                       DecodeResult(response.result))
                         /\ sends' = [sends EXCEPT ![n] = @ + 1]
                         /\ answeredBy' = [answeredBy EXCEPT ![n] = w]
                    ELSE UNCHANGED <<chan, sends, answeredBy>>
    /\ UNCHANGED <<poolKind, files, queue, started, cpc, creq, cid, cworker,
                   cres, ctxVars, next_request_id, next_worker_idx,
                   workersLock, stdin, resp, obs, hist, overlapped, fault,
                   parentAlive, poolHeld, atExit>>

\* read_responses: read_exact fails because the worker has gone and its
\* output is drained: `break`, the reader thread ends.
ReaderEof(w) ==
    LET dropped == SendersDroppedAtEof(pending[w]) IN
    /\ poolKind = "process"
    /\ UNCHANGED sideVars
    /\ UNCHANGED wireVars
    /\ reader[w] = "running"
    /\ stdout[w] = <<>>
    /\ pc[w] \in Exited
    /\ reader' = [v \in Workers |->
                    IF v \in ReadersStoppedBy(w) THEN "exited" ELSE reader[v]]
    /\ pending' = [pending EXCEPT ![w] = @ \ dropped]
    /\ chan' = [n \in Calls |->
                  IF (\E e \in dropped : e[2] = n) /\ chan[n] = Empty
                  THEN Closed ELSE chan[n]]
    /\ UNCHANGED <<poolKind, files, queue, started, cpc, creq, cid, cworker,
                   cres, ctxVars, next_request_id, next_worker_idx,
                   workersLock, stdin, stdout, resp, histVars, fault,
                   parentAlive, poolHeld, lookup, corrupt, atExit>>

\* ------------------------------------------------------------ failures
\* A worker process is killed, wherever it is in its loop: what it held is
\* lost, its ends of both pipes close.
WorkerExits(w) ==
    /\ poolKind = "process"
    /\ UNCHANGED sideVars
    /\ UNCHANGED wireVars
    /\ fault = "exit"
    /\ pc[w] \notin Exited
    /\ fault' = "none"
    /\ pc' = [pc EXCEPT ![w] = "crashed"]
    /\ cur' = [cur EXCEPT ![w] = NoReq]
    /\ resp' = [resp EXCEPT ![w] = NoResult]
    /\ inProgress' = [inProgress EXCEPT ![w] = 0]
    /\ stdin' = [stdin EXCEPT ![w] = <<>>]
    /\ atExit' = [mid |-> pc[w] # "idle",
                  others |-> {n \in Calls : /\ cpc[n] = "await"
                                            /\ cworker[n] # w
                                            /\ chan[n] = Empty}]
    /\ UNCHANGED <<poolKind, files, queue, callVars, current_style,
                   style_specified, loaded, next_request_id, next_worker_idx,
                   workersLock, pending, stdout, histVars, parentAlive, poolHeld,
                   reader, lookup, corrupt>>

\* A caller drops the future of call n while it awaits the response.
DropCall(n) ==
    /\ poolKind = "process"
    /\ UNCHANGED sideVars
    /\ UNCHANGED wireVars
    /\ fault = "drop"
    /\ cpc[n] = "await"
    /\ chan[n] = Empty
    /\ fault' = "none"
    /\ cpc' = [cpc EXCEPT ![n] = "dropped"]
    /\ pending' = [pending EXCEPT ![cworker[n]] = PendingAfterDrop(@, cid[n])]
    /\ UNCHANGED <<poolKind, files, queue, started, creq, cid, cworker, chan,
                   cres, ctxVars, next_request_id, next_worker_idx,
                   workersLock, stdin, stdout, resp, histVars, parentAlive,
                   poolHeld,
                   reader, lookup, corrupt, atExit>>

\* Bytes that are no message get framed onto one of worker w's pipes.
Garbage(w, stream) ==
    /\ poolKind = "process"
    /\ UNCHANGED sideVars
    /\ fault = "garbage"
    /\ fault' = "none"
    /\ IF stream = "stdin"
       THEN /\ Len(stdin[w]) < PipeCapacity
            /\ stdin' = [stdin EXCEPT ![w] = Append(@, GarbageRequest)]
            /\ arrived' = [arrived EXCEPT ![w] = Append(@, GarbageRequest)]
            /\ UNCHANGED stdout
       ELSE /\ Len(stdout[w]) < PipeCapacity
            /\ stdout' = [stdout EXCEPT ![w] = Append(@, GarbageResponse)]
            /\ UNCHANGED <<stdin, arrived>>
    /\ UNCHANGED written
    /\ UNCHANGED <<poolKind, files, queue, callVars, ctxVars,
                   next_request_id, next_worker_idx, workersLock, pending,
                   resp, histVars, parentAlive, poolHeld, reader, lookup,
                   corrupt,
                   atExit>>

\* The process that owns the pool ends: its callers and reader threads are
\* gone and its ends of the pipes close.  A request being written may have
\* got no further than its length prefix.
ParentExits(cut) ==
    LET n == workersLock
        w == cworker[n]
    IN
    /\ poolKind = "process"
    /\ UNCHANGED sideVars
    /\ fault = "parent"
    /\ fault' = "none"
    /\ parentAlive' = FALSE
    /\ UNCHANGED poolHeld
    /\ cpc' = [m \in Calls |-> IF m \in OpenCalls THEN "gone" ELSE cpc[m]]
    /\ reader' = [v \in Workers |-> "exited"]
    /\ workersLock' = NoCall
    /\ stdout' = [v \in Workers |-> <<>>]
    /\ IF cut /\ n # NoCall /\ pc[w] \notin Exited /\ Len(stdin[w]) < PipeCapacity
       THEN /\ stdin' = [stdin EXCEPT ![w] = Append(@, TruncatedRequest)]
            /\ arrived' = [arrived EXCEPT ![w] = Append(@, TruncatedRequest)]
       ELSE UNCHANGED <<stdin, arrived>>
    /\ UNCHANGED written
    /\ UNCHANGED <<poolKind, files, queue, started, creq, cid, cworker, chan,
                   cres, ctxVars, next_request_id, next_worker_idx, pending,
                   resp, histVars, lookup, corrupt, atExit>>

\* The steps of the process pool whose callers name the styles `styles`.
NextProcessOn(styles) ==
    \/ \E p \in styles : MRenderTile(p)
    \/ \E n \in Calls : MSelect(n)
    \/ \E n \in Calls : MSendLock(n)
    \/ \E n \in Calls : MWrite(n)
    \/ \E n \in Calls : MAwait(n)
    \/ \E w \in Workers : WRead(w)
    \/ \E w \in Workers : WStyle(w)
    \/ \E w \in Workers : WLoadDone(w)
    \/ \E w \in Workers : WRenderBegin(w)
    \/ \E w \in Workers, raw \in RawOutputs : WRenderEnd(w, raw)
    \/ \E w \in Workers : WRespond(w)
    \/ \E w \in Workers : ReadResponses(w)

NextProcess == NextProcessOn(Paths)

Next ==
    \/ \E p \in Removable : DeleteFile(p)
    \/ NextSingle
    \/ NextProcess

Spec == Init /\ [][Next]_vars

\* ----------- the pools under one failure other than the loss of a worker
FaultInit ==
    /\ fault \in FaultKinds \ {"exit"}
    /\ poolKind = (IF fault = "panic" THEN "single" ELSE "process")
    /\ Start

NextFault ==
    \/ SThreadPanics
    \/ \E n \in Calls : DropCall(n)
    \/ \E w \in Workers, stream \in {"stdin", "stdout"} : Garbage(w, stream)
    \/ \E cut \in BOOLEAN : ParentExits(cut)
    \/ \E w \in Workers : WReadFails(w)

FaultNext ==
    \/ NextSingleOn(FaultPaths)
    \/ NextProcessOn(FaultPaths)
    \/ NextFault

FaultSpec == FaultInit /\ [][FaultNext]_vars

\* One turn of worker w's loop in run_worker.
WorkerStep(w) ==
    \/ WRead(w)
    \/ WStyle(w)
    \/ WLoadDone(w)
    \/ WRenderBegin(w)
    \/ \E raw \in RawOutputs : WRenderEnd(w, raw)
    \/ WRespond(w)

\* A worker process that can take a step takes one, and so does a reader
\* thread that has a frame to read: the operating system schedules both.
Scheduling ==
    \A w \in Workers : WF_vars(WorkerStep(w)) /\ WF_vars(ReadResponses(w))

\* ------------------------------- the process pool when a worker is killed
ExitInit ==
    /\ fault = "exit"
    /\ poolKind = "process"
    /\ Start

ExitNext ==
    \/ NextProcessOn(FaultPaths)
    \/ \E w \in Workers : WorkerExits(w)
    \/ \E w \in Workers : ReaderEof(w)

FairExitSpec == ExitInit /\ [][ExitNext]_vars /\ Scheduling

\* ------------------------------------------------------------ history
\* The calls whose style step has run in context c, in the order c took them.
HandledBy(c) == SelectSeq(hist[c], LAMBDA n : obs[n].ctx # NoCtx)

PathOf(n) == creq[n].style_path

\* In a sequence of calls: the calls of load_style_from_path, and the loads
\* that reached the engine.
LoadCallsOf(h) == Cardinality({i \in 1 .. Len(h) : obs[h[i]].loadCalled})
EngineLoadsOf(h) == Cardinality({i \in 1 .. Len(h) : obs[h[i]].ffiLoads = 1})

\* Call n is in flight on its worker: dispatched, response not delivered.
InFlight(n) == cpc[n] \in {"write", "await"} /\ sends[n] = 0

\* ------------------------------------------------------------- claims
\* C1: in every context (the pool thread, each worker process) at most one
\* engine call (style load or render) is in progress at any time, however
\* many callers have calls open.
C1_OneCallInProgress == \A c \in Contexts : inProgress[c] <= 1

\* C1 witness: the pool thread is inside an engine call while a second
\* caller's request waits in the queue.
C1_Witness ==
    /\ poolKind = "single"
    /\ inProgress[Thread] = 1
    /\ queue # <<>>
    /\ Cardinality(OpenCalls) = 2

\* C2: in the process pool, whatever lands on a call's one-shot, and whatever
\* the call returns, is the result a worker produced for that call's own
\* request (same call, same tile, carried under the call's ID by the worker
\* the call was sent to), and no one-shot is sent on twice.
C2_OwnResult ==
    poolKind = "process" =>
        \A n \in Calls :
            /\ sends[n] <= 1
            /\ chan[n] # Empty =>
                 /\ chan[n].call = n
                 /\ chan[n].kind = "Image" => chan[n].tile = creq[n].tile
                 /\ answeredBy[n] = cworker[n]
                 /\ sends[n] = 1
            /\ cres[n] # NoResult => cres[n] = chan[n]

\* C2 witness: a call has returned an image while another call, sent to the
\* same worker, still waits with its entry in that worker's pending table.
C2_Witness ==
    /\ poolKind = "process"
    /\ \E n, m \in Calls :
          /\ n # m
          /\ cpc[n] = "done"
          /\ cres[n].kind = "Image"
          /\ cworker[m] = cworker[n]
          /\ cpc[m] = "await"
          /\ <<cid[m], m>> \in pending[cworker[m]]

\* C3: while no call was entered before the previous one returned, the i-th
\* call (0-indexed; call n is the (n-1)-th) is selected for, read by and
\* answered by worker i mod NumWorkers.
C3_RoundRobin ==
    (poolKind = "process" /\ ~overlapped) =>
        \A n \in Calls :
            LET w == (n - 1) % NumWorkers IN
            /\ cpc[n] \in {"send", "write", "await", "done"} => cworker[n] = w
            /\ \A v \in Workers :
                 (\E i \in 1 .. Len(hist[v]) : hist[v][i] = n) => v = w
            /\ answeredBy[n] # NoCtx => answeredBy[n] = w

\* C3 witness: MaxCalls calls were made one after another and the last one,
\* which wraps around the worker list, was answered.
C3_Witness ==
    /\ poolKind = "process"
    /\ ~overlapped
    /\ MaxCalls > NumWorkers
    /\ \A n \in Calls : cpc[n] = "done"
    /\ answeredBy[MaxCalls] = (MaxCalls - 1) % NumWorkers

\* C4: in every context, the handling of a request calls
\* load_style_from_path if and only if the request's path differs from the
\* path the context had cached when it took the request (None, the empty
\* cache, differs from every path).
C4_LoadIffChanged ==
    \A n \in Calls :
        obs[n].ctx # NoCtx =>
            (obs[n].loadCalled <=> obs[n].cacheBefore # PathOf(n))

\* C4 witness: some context has skipped the load for one request (cache hit)
\* and called it for another while its cache held a different path.
C4_Witness ==
    \E n, m \in Calls :
        /\ obs[n].ctx # NoCtx /\ ~obs[n].loadCalled
        /\ obs[m].ctx = obs[n].ctx /\ obs[m].loadCalled
        /\ obs[m].cacheBefore # None

\* The step of context c is a failed style load.
FailedLoadStep(c) ==
    /\ pc[c] = "style"
    /\ pc'[c] # "style"
    /\ current_style[c] # cur[c].style_path
    /\ cur[c].style_path \notin files

\* C5: a failed style load leaves the context's cached path as it was, and a
\* request naming a path whose load failed earlier in the same context, with
\* no successful load of that path in between, calls load_style_from_path
\* again.
C5_FailedLoadKeepsCache ==
    /\ [][\A c \in Contexts :
            FailedLoadStep(c) => current_style'[c] = current_style[c]]_vars
    /\ [](\A c \in Contexts :
            LET h == HandledBy(c) IN
            \A i, j \in 1 .. Len(h) :
                ( /\ i < j
                  /\ PathOf(h[i]) = PathOf(h[j])
                  /\ obs[h[i]].loadCalled /\ obs[h[i]].ffiLoads = 0
                  /\ \A k \in (i + 1) .. (j - 1) :
                        ~(PathOf(h[k]) = PathOf(h[i]) /\ obs[h[k]].ffiLoads = 1) )
                => obs[h[j]].loadCalled)

\* C5 witness: a context that holds a cached style has failed to load the
\* same missing path twice, and its cache still holds that style.
C5_Witness ==
    \E c \in Contexts :
        LET h == HandledBy(c) IN
        /\ current_style[c] # None
        /\ \E i, j \in 1 .. Len(h) :
              /\ i < j
              /\ PathOf(h[i]) = PathOf(h[j])
              /\ obs[h[i]].loadCalled /\ obs[h[i]].ffiLoads = 0
              /\ obs[h[i]].cacheBefore # None
              /\ obs[h[j]].loadCalled /\ obs[h[j]].ffiLoads = 0

\* The error a caller gets for a path that is not a file: the NotFound
\* io::Error (serializing pool), or the WorkerError carrying its text.
NotFoundClass(r) ==
    \/ r.kind = "IOError" /\ r.detail = "NotFound"
    \/ r.kind = "WorkerError"
       /\ r.detail = "Failed to load style: " \o Display("NotFound")

\* Nothing of request n reached the engine, and its answer, if it has one,
\* is the NotFound-class error.
RejectedUntouched(n) ==
    /\ obs[n].ffiLoads = 0
    /\ obs[n].ffiRenders = 0
    /\ chan[n] # Empty => NotFoundClass(chan[n])
    /\ cres[n] # NoResult => NotFoundClass(cres[n])

\* C6 as stated: every request whose path is not a regular file when its
\* context handles it gets a NotFound-class error and causes no engine call.
C6_MissingPathRejected ==
    \A n \in Calls :
        (obs[n].ctx # NoCtx /\ ~obs[n].wasFile) => RejectedUntouched(n)

\* C6 amended: the same, for the requests whose path is not the path the
\* context has cached (a cached path is rendered without looking at the disk).
C6_MissingUncachedPathRejected ==
    \A n \in Calls :
        (obs[n].ctx # NoCtx /\ ~obs[n].wasFile
            /\ obs[n].cacheBefore # PathOf(n)) => RejectedUntouched(n)

\* C6 witness: a caller got the NotFound-class error from a context that
\* had another style loaded.
C6_Witness ==
    \E n \in Calls :
        /\ obs[n].ctx # NoCtx /\ ~obs[n].wasFile
        /\ obs[n].cacheBefore \notin {None, PathOf(n)}
        /\ cpc[n] = "done" /\ NotFoundClass(cres[n])

\* Request n failed in its context because its path was not a file.
FailedMissing(n) ==
    obs[n].ctx # NoCtx /\ obs[n].loadCalled /\ ~obs[n].wasFile

\* C7: no context stops, and a request with a valid path that a context
\* handles after nothing but requests that failed on a missing path
\* succeeds: it is loaded and rendered by the engine, its answer is never
\* the style error, and it is the image whenever the engine returned a
\* complete buffer.
C7_UsableAfterErrors ==
    /\ \A c \in Contexts : pc[c] # "stopped"
    /\ \A c \in Contexts :
         LET h == HandledBy(c) IN
         \A j \in 1 .. Len(h) :
            ( /\ j > 1
              /\ \A i \in 1 .. (j - 1) : FailedMissing(h[i])
              /\ obs[h[j]].wasFile
              /\ chan[h[j]] # Empty )
            => /\ obs[h[j]].ffiLoads = 1
               /\ obs[h[j]].ffiRenders = 1
               /\ chan[h[j]].kind \in {"Image", "RenderingError", "WorkerError"}
               /\ ~NotFoundClass(chan[h[j]])
               /\ obs[h[j]].rawOk =>
                     chan[h[j]] = ImageOf(PathOf(h[j]), creq[h[j]].tile, h[j])

\* C7 witness: the serializing pool failed two requests on a missing path
\* and then returned the image of a third, valid one.
C7_Witness ==
    /\ poolKind = "single"
    /\ Len(HandledBy(Thread)) >= 3
    /\ FailedMissing(1) /\ cres[1].kind = "IOError"
    /\ FailedMissing(2) /\ cres[2].kind = "IOError"
    /\ cres[3].kind = "Image"

\* All calls of h name one path.
SamePath(h) == \A i \in 1 .. Len(h) : PathOf(h[i]) = PathOf(h[1])

\* C8: a context that has handled N >= 1 requests, all naming the same path,
\* valid when the first was handled, has made exactly one style load.
C8_SamePathLoadsOnce ==
    \A c \in Contexts :
        LET h == HandledBy(c) IN
        (Len(h) >= 1 /\ SamePath(h) /\ obs[h[1]].wasFile)
            => LoadCallsOf(h) = 1 /\ EngineLoadsOf(h) = 1

\* C8 witness: the pool thread has answered three requests for one path.
C8_Witness ==
    LET h == HandledBy(Thread) IN
    /\ Len(h) >= 3
    /\ SamePath(h)
    /\ obs[h[1]].wasFile
    /\ \A i \in 1 .. Len(h) : chan[h[i]].kind = "Image"

\* The calls of h alternate between two paths, each valid when handled.
Alternating(h) ==
    /\ \A i \in 1 .. Len(h) : obs[h[i]].wasFile
    /\ \A i \in 1 .. (Len(h) - 1) : PathOf(h[i]) # PathOf(h[i + 1])
    /\ \A i \in 1 .. (Len(h) - 2) : PathOf(h[i]) = PathOf(h[i + 2])

\* C9: a context that has handled M requests alternating between two valid
\* paths has made M style loads.
C9_AlternatingLoadsEach ==
    \A c \in Contexts :
        LET h == HandledBy(c) IN
        Alternating(h) => LoadCallsOf(h) = Len(h) /\ EngineLoadsOf(h) = Len(h)

\* C9 witness: a worker process has answered two requests, the second for
\* the other style.
C9_Witness ==
    \E w \in Workers :
        LET h == HandledBy(w) IN
        /\ Len(h) >= 2
        /\ Alternating(h)
        /\ \A i \in 1 .. Len(h) : answeredBy[h[i]] = w

\* C10: the calls in flight on one worker carry pairwise distinct request
\* IDs, and each has its own entry in that worker's pending table (no
\* insert has replaced it).
C10_InFlightIdsDistinct ==
    poolKind = "process" =>
        \A n \in Calls :
            InFlight(n) =>
                /\ <<cid[n], n>> \in pending[cworker[n]]
                /\ \A m \in Calls :
                      (m # n /\ InFlight(m) /\ cworker[m] = cworker[n])
                          => cid[m] # cid[n]

\* C10 witness: two calls are in flight on the same worker.
C10_Witness ==
    /\ poolKind = "process"
    /\ \E n, m \in Calls :
          /\ n # m
          /\ InFlight(n) /\ InFlight(m)
          /\ cworker[n] = cworker[m]
          /\ Cardinality(pending[cworker[n]]) = 2

\* Call n has taken its request ID.
Allocated(n) == poolKind = "process" /\ cpc[n] # "new"

\* C11: every request ID render_tile allocates is greater than every ID
\* allocated before it (calls are numbered in the order of their allocation),
\* and the counter stays above all of them, also when callers race.
C11_IdsIncrease ==
    \A n \in Calls :
        Allocated(n) =>
            /\ cid[n] < next_request_id
            /\ \A m \in Calls : (m < n) => cid[m] < cid[n]

\* C11 witness: all calls have their IDs, the last two allocated back to
\* back by callers that are both still before the worker selection.
C11_Witness ==
    /\ Allocated(MaxCalls)
    /\ cpc[MaxCalls] = "select"
    /\ cpc[MaxCalls - 1] = "select"

\* Call n was resolved with the result its own worker produced for it: the
\* image whenever the engine returned a complete buffer.
Completed(n) ==
    /\ sends[n] = 1
    /\ chan[n].call = n
    /\ answeredBy[n] = cworker[n]
    /\ obs[n].rawOk => chan[n] = ImageOf(PathOf(n), creq[n].tile, n)

\* C12: when a worker exits in the middle of a request, every request that
\* was dispatched to another worker and not yet answered is answered in the
\* end, with the result that worker produces for it.
C12_OthersComplete ==
    \A n \in Calls : (atExit.mid /\ n \in atExit.others) ~> Completed(n)

\* C12 witness: a worker was killed in the middle of a request, and a call
\* that was waiting on another worker at that moment has returned its image.
C12_Witness ==
    /\ atExit.mid
    /\ \E w \in Workers : pc[w] = "crashed"
    /\ \E n \in atExit.others : cpc[n] = "done" /\ cres[n].kind = "Image"

\* Call n was handed to a worker whose output stream has closed (its reader
\* thread has ended) before any response for n was read.
LeftPending(n) ==
    /\ poolKind = "process"
    /\ cpc[n] \in {"await", "done"}
    /\ reader[cworker[n]] = "exited"
    /\ lookup[n] = "none"

C14_CrashReturnsError ==
    \A n \in Calls :
        ( /\ poolKind = "process"
          /\ cpc[n] = "await"
          /\ pc[cworker[n]] \in Exited
          /\ reader[cworker[n]] = "exited" )
        => chan[n] # Empty

\* The step of worker w's request loop takes a frame that does not decode.
SkipsRequest(w) ==
    /\ pc[w] = "idle"
    /\ stdin[w] # <<>>
    /\ Head(stdin[w]).wire = "undecodable"
    /\ stdin'[w] = Tail(stdin[w])

\* The step of worker w's reader thread takes a frame that does not decode.
SkipsResponse(w) ==
    /\ reader[w] = "running"
    /\ stdout[w] # <<>>
    /\ Head(stdout[w]).wire = "undecodable"
    /\ stdout'[w] = Tail(stdout[w])
    /\ parentAlive'

Returned(w) == pc[w] \in {"returnedOk", "returnedErr"}

\* read_exact on worker w's input fails: end of input, or a frame cut short.
ReadFailure(w) ==
    \/ stdin[w] = <<>> /\ ~parentAlive
    \/ stdin[w] # <<>> /\ Head(stdin[w]).wire = "truncated"

\* C16 as stated: run_worker returns only from the read at the head of its
\* loop, when that read fails.
C16_ReturnsOnlyOnReadFailure ==
    [][\A w \in Workers :
         (~Returned(w) /\ Returned(w)')
             => (pc[w] = "idle" /\ ReadFailure(w))]_vars

\* C16 amended: run_worker returns only when the read of its input fails (it
\* returns Ok) or when writing a response fails (it returns the error); as
\* long as the parent holds the pipes, no request, whatever its style or the
\* engine's output, makes it return.
C16_ReturnsOnReadOrWriteFailure ==
    /\ [][\A w \in Workers :
            (~Returned(w) /\ Returned(w)')
                => \/ /\ pc[w] = "idle"
                      /\ ReadFailure(w)
                      /\ pc'[w] = "returnedOk"
                   \/ /\ pc[w] = "respond"
                      /\ reader[w] = "exited"
                      /\ pc'[w] = "returnedErr"]_vars
    /\ [](\A w \in Workers : Returned(w) => ~parentAlive)

\* C16 witness: after the parent went away one worker returned at the end of
\* its input and the other on the response it could not write.
C16_Witness ==
    \E v, w \in Workers :
        /\ pc[v] = "returnedOk"
        /\ pc[w] = "returnedErr"
        /\ hist[w] # <<>>

\* The caller of call n dropped its future before a result arrived.
Dropped(n) == cpc[n] = "dropped"

\* C17 as stated: when the response of a dropped call is read, no pending
\* entry is found for its ID.
C17_DroppedFindsNoEntry ==
    \A n \in Calls : (Dropped(n) /\ lookup[n] # "none") => lookup[n] = "missing"

\* C17 amended: dropping the future of a call touches neither the worker nor
\* the pending table; the call's entry stays until its response is read;
\* that read finds and removes the entry, delivers nothing, and leaves the
\* reader thread running.
C17_DroppedEntryFoundAndDiscarded ==
    /\ [][\A n \in Calls :
            (~Dropped(n) /\ Dropped(n)')
                => UNCHANGED <<stdin, stdout, pc, cur, resp, pending>>]_vars
    /\ [](\A n \in Calls :
            Dropped(n) =>
                /\ chan[n] = Empty
                /\ sends[n] = 0
                /\ reader[cworker[n]] = "running"
                /\ lookup[n] # "missing"
                /\ lookup[n] = "none" <=> <<cid[n], n>> \in pending[cworker[n]])

\* C17 witness: the response of a dropped call was read and discarded, and a
\* later call to the same worker has since returned its image.
C17_Witness ==
    \E n, m \in Calls :
        /\ Dropped(n)
        /\ lookup[n] = "found"
        /\ obs[n].ffiRenders = 1
        /\ n < m
        /\ cworker[m] = cworker[n]
        /\ cpc[m] = "done"
        /\ cres[m].kind = "Image"

\* The serializing pool's worker thread has terminated.
ThreadGone == poolKind = "single" /\ pc[Thread] = "stopped"

\* The two errors render_tile makes of a failed channel operation.
ChannelError(r) == r.kind \in {"FailedToSendRequest", "FailedToReceiveResponse"}

\* C18: once the worker thread has terminated it stays terminated and its
\* engine is never called again; every call entered afterwards returns at
\* once with the send error; and every call that had no answer when the
\* thread ended returns a channel error, never an image.
C18_StoppedPoolStaysStopped ==
    /\ [][ThreadGone =>
            /\ ThreadGone'
            /\ UNCHANGED <<hist, inProgress, loaded, current_style>>
            /\ \A n \in Calls :
                  (cpc[n] = "new" /\ cpc'[n] # "new")
                      => /\ cpc'[n] = "done"
                         /\ cres'[n].kind = "FailedToSendRequest"]_vars
    /\ [](ThreadGone =>
            \A n \in Calls :
               (cpc[n] # "new" /\ sends[n] = 0) =>
                   /\ chan[n] = Closed \/ cres[n].kind = "FailedToSendRequest"
                   /\ cpc[n] = "done" => ChannelError(cres[n]))

\* C18 witness: the thread ended after answering one call; the call it held
\* then got the receive error and a call made afterwards the send error.
C18_Witness ==
    /\ ThreadGone
    /\ \E k, m, n \in Calls :
          /\ cres[k].kind = "Image"
          /\ cres[m].kind = "FailedToReceiveResponse"
          /\ cres[n].kind = "FailedToSendRequest"

\* C19: a caller that has selected its worker and is about to dispatch never
\* has to wait for a caller that is writing a request frame to a different
\* worker: it can take its step.
C19_DispatchesIndependent ==
    \A m, n \in Calls :
        ( /\ poolKind = "process"
          /\ cpc[m] = "send"
          /\ cpc[n] = "write"
          /\ cworker[n] # cworker[m] )
        => ENABLED MSendLock(m)

\* Worker w is in the middle of a request, at a step that waits for nothing.
MidRequest(w) == pc[w] \in {"style", "loading", "render", "rendering"}

\* C20: whatever the other workers are doing, a worker in the middle of a
\* request can take its next step, a worker with a response to write can
\* write it once its own pipe has room, a response in a worker's pipe can be
\* delivered, and a caller whose result has arrived can return: a request
\* never waits for a request on another worker.
C20_WorkersIndependent ==
    poolKind = "process" =>
        /\ \A w \in Workers :
              /\ MidRequest(w) => ENABLED WorkerStep(w)
              /\ (pc[w] = "respond" /\ Len(stdout[w]) < PipeCapacity)
                     => ENABLED WRespond(w)
              /\ stdout[w] # <<>> => ENABLED ReadResponses(w)
        /\ \A n \in Calls :
              (cpc[n] = "await" /\ chan[n] # Empty) => ENABLED MAwait(n)

\* C20 witness: both workers are inside the engine's render at the same
\* time, after an earlier call has returned its image.
C20_Witness ==
    /\ poolKind = "process"
    /\ \A w \in Workers : pc[w] = "rendering" /\ inProgress[w] = 1
    /\ \E n \in Calls : cpc[n] = "done" /\ cres[n].kind = "Image"

\* A response of one worker is in its pipe, ready to be delivered to a
\* waiting caller, while another worker is inside the engine's render.
CompletesDuringRender ==
    \E v, w \in Workers :
        /\ v # w
        /\ pc[v] = "rendering"
        /\ stdout[w] # <<>>
        /\ \E n \in Calls : cpc[n] = "await" /\ Head(stdout[w]).id = cid[n]

\* ---------------------------------------------------------------- C21
\* The IDs carried by a sequence of frames.
IdsOf(frames) == [i \in 1 .. Len(frames) |-> frames[i].id]

\* The frames worker w has taken from its input, in the order they arrived.
TakenBy(w) == SubSeq(arrived[w], 1, Len(arrived[w]) - Len(stdin[w]))

\* Those of them that decode to a request.
DecodedBy(w) == SelectSeq(TakenBy(w), Decodes)

\* Worker w holds a decoded request it has not answered yet.
Handling(w) == pc[w] \in {"style", "loading", "render", "rendering", "respond"}

\* All but the last element of a sequence.
Front(s) == SubSeq(s, 1, Len(s) - 1)

TimesConsumed(n) ==
    Cardinality({<<c, i>> \in Contexts \X (1 .. MaxCalls + 1) :
                    i <= Len(hist[c]) /\ hist[c][i] = n})

\* C22: a submitted request is taken up at most once, and exactly once by the
\* time its call has returned; it causes at most one call of
\* load_style_from_path that reaches the engine and at most one render call,
\* at most one value is sent on its one-shot, and the value on a call's
\* one-shot and the value a call returns were produced for that call.
C22_ConsumedOnceNoRetry ==
    /\ \A c \in Contexts : Len(hist[c]) <= MaxCalls
    /\ \A n \in Calls :
        /\ TimesConsumed(n) <= 1
        /\ cres[n] # NoResult => TimesConsumed(n) = 1
        /\ obs[n].ffiLoads <= 1
        /\ obs[n].ffiRenders <= 1
        /\ obs[n].ffiRenders = 1 => obs[n].ctx # NoCtx
        /\ sends[n] <= 1
        /\ chan[n] # Empty => chan[n].call = n
        /\ cres[n] # NoResult => cres[n].call = n

\* C22 witness: a call of the serializing pool has returned the error of its
\* failed style load, the thread is idle again with nothing queued, and the
\* request was taken up once and never rendered.
C22_Witness ==
    /\ poolKind = "single"
    /\ pc[Thread] = "idle"
    /\ queue = <<>>
    /\ \E n \in Calls :
          /\ cpc[n] = "done"
          /\ cres[n].kind = "IOError"
          /\ TimesConsumed(n) = 1
          /\ obs[n].loadCalled
          /\ obs[n].ffiRenders = 0

\* ---------------------------------------------------------------- C23
\* What a render_tile call of either pool can return: an image or one of the
\* error variants of PoolError / MultiThreadedRenderPoolError.
ResultKinds ==
    {"Image", "IOError", "RenderingError", "WorkerError",
     "FailedToSendRequest", "FailedToReceiveResponse"}

\* The error a pool reports for raw data that is no whole image.
InvalidImage(r, n) ==
    \/ r = ErrorOf("RenderingError", "InvalidImageData", n)
    \/ r = ErrorOf("WorkerError",
                   "Rendering error: " \o Display("InvalidImageData"), n)

\* C23: whatever a call returns is an image or a typed error; an image is
\* returned only for a render whose raw buffer held its whole 8-byte header
\* and all width * height * 4 pixel bytes, and a render whose raw buffer was
\* cut short (before the end of the header, or before the end of the pixel
\* bytes) is answered with the invalid-image error, never with an image.
C23_CompleteImageOrError ==
    \A n \in Calls :
        /\ cres[n] # NoResult => cres[n].kind \in ResultKinds
        /\ chan[n] # Empty /\ chan[n].kind = "Image" =>
              /\ obs[n].ffiRenders = 1
              /\ ~obs[n].cutShort
        /\ chan[n] # Empty /\ obs[n].cutShort => InvalidImage(chan[n], n)
        /\ cres[n] # NoResult /\ obs[n].cutShort => InvalidImage(cres[n], n)

\* C23 witness: in one run a call whose raw buffer was cut short has returned
\* the invalid-image error and another call has returned an image.
C23_Witness ==
    \E n, m \in Calls :
        /\ obs[n].cutShort
        /\ cpc[n] = "done"
        /\ InvalidImage(cres[n], n)
        /\ cpc[m] = "done"
        /\ cres[m].kind = "Image"

\* ------------------------------------------- wire protocol, byte by byte
\* One pipe pair of one worker, with the messages as the bytes bincode and
\* the length prefix make of them.  A u32 is a pair <<high, low>> of 16-bit
\* halves and a u64 four such quarters, highest first.
MaxFrames == 2

Bytes == 0 .. 255
Take(s, k) == SubSeq(s, 1, k)
Drop(s, k) == SubSeq(s, k + 1, Len(s))

\* `u32::to_le_bytes` of a u32 given by its halves.
U32ToLe(v) == <<v[2] % 256, v[2] \div 256, v[1] % 256, v[1] \div 256>>

\* A u32 read highest byte first.
U32FromBe(b) == <<b[1] * 256 + b[2], b[3] * 256 + b[4]>>

\* `u32::from_le_bytes`, to halves.
U32FromLe(b) == <<b[4] * 256 + b[3], b[2] * 256 + b[1]>>

\* bincode's fixed-width little-endian u64.
U64ToLe(v) == U32ToLe(<<v[3], v[4]>>) \o U32ToLe(<<v[1], v[2]>>)
U64FromLe(b) == U32FromLe(Drop(b, 4)) \o U32FromLe(Take(b, 4))

\* A prefix that holds the low 8 bits of the length only.
LenToLeNarrow(n) == <<n % 256, 0, 0, 0>>

\* `encoded.len() as u32` followed by to_le_bytes: the low 32 bits of the
\* length, lowest byte first.
LenToLe(n) ==
    <<n % 256, (n \div 256) % 256, (n \div 65536) % 256,
      (n \div 16777216) % 256>>

\* `u32::from_le_bytes(len_bytes) as usize`, for lengths below 2^31.
LenFromLe(b) == b[1] + 256 * b[2] + 65536 * b[3] + 16777216 * b[4]

\* bincode's length of a string or byte vector: a u64, of which the lengths
\* here fill the low half.
SeqLenToLe(n) == LenToLe(n) \o <<0, 0, 0, 0>>
SeqLenFromLe(b) ==
    IF Drop(b, 4) = <<0, 0, 0, 0>> /\ b[4] < 128 THEN LenFromLe(Take(b, 4))
    ELSE -1

\* The continuation bytes a UTF-8 lead byte announces; -1 for a byte that
\* cannot lead.
Continuations(lead) ==
    IF lead < 128 THEN 0
    ELSE IF lead \in 194 .. 223 THEN 1
    ELSE IF lead \in 224 .. 239 THEN 2
    ELSE IF lead \in 240 .. 244 THEN 3
    ELSE -1

IsContinuation(byte) == byte \in 128 .. 191

\* `str::from_utf8` succeeds: the bytes begin with a lead byte, and every
\* lead byte is followed by exactly the continuation bytes it announces
\* (overlong and surrogate forms are not told apart).
IsUtf8(b) ==
    /\ b # <<>> => ~IsContinuation(b[1])
    /\ \A i \in 1 .. Len(b) :
          IsContinuation(b[i]) \/
            LET more == Continuations(b[i]) IN
            /\ more >= 0
            /\ i + more <= Len(b)
            /\ \A j \in (i + 1) .. (i + more) : IsContinuation(b[j])
            /\ i + more < Len(b) => ~IsContinuation(b[i + more + 1])

SerializationError == <<"SerializationError">>
Undecodable == [kind |-> "Undecodable"]

\* bincode::serialize(&WorkerRequest): the fields in order; a PathBuf is
\* written as a string and refused when it is not valid UTF-8.
SerializeRequest(r) ==
    IF ~IsUtf8(r.style_path) THEN SerializationError
    ELSE U64ToLe(r.id) \o SeqLenToLe(Len(r.style_path)) \o r.style_path
             \o <<r.z>> \o U32ToLe(r.x) \o U32ToLe(r.y)

\* bincode::deserialize::<WorkerRequest>(&buffer); bytes after the last
\* field are allowed.
DeserializeRequest(b) ==
    IF Len(b) < 16 THEN Undecodable
    ELSE LET n == SeqLenFromLe(SubSeq(b, 9, 16))
             rest == Drop(b, 16)
         IN IF n < 0 \/ Len(rest) < n + 9 THEN Undecodable
            ELSE IF ~IsUtf8(Take(rest, n)) THEN Undecodable
            ELSE [kind |-> "WorkerRequest",
                  id |-> U64FromLe(Take(b, 8)),
                  style_path |-> Take(rest, n),
                  z |-> rest[n + 1],
                  x |-> U32FromLe(SubSeq(rest, n + 2, n + 5)),
                  y |-> U32FromLe(SubSeq(rest, n + 6, n + 9))]

\* bincode::serialize(&WorkerResponse): the ID, the variant of the Result as
\* a u32 (Ok = 0, Err = 1), then the bytes or the string with their length.
SerializeResponse(r) ==
    U64ToLe(r.id) \o U32ToLe(<<0, IF r.ok THEN 0 ELSE 1>>)
        \o SeqLenToLe(Len(r.data)) \o r.data

\* bincode::deserialize::<WorkerResponse>(&buffer).
DeserializeResponse(b) ==
    IF Len(b) < 20 THEN Undecodable
    ELSE LET variant == U32FromLe(SubSeq(b, 9, 12))
             n == SeqLenFromLe(SubSeq(b, 13, 20))
             rest == Drop(b, 20)
         IN IF variant \notin {<<0, 0>>, <<0, 1>>} THEN Undecodable
            ELSE IF n < 0 \/ Len(rest) < n THEN Undecodable
            ELSE IF variant = <<0, 1>> /\ ~IsUtf8(Take(rest, n)) THEN Undecodable
            ELSE [kind |-> "WorkerResponse",
                  id |-> U64FromLe(Take(b, 8)),
                  ok |-> (variant = <<0, 0>>),
                  data |-> Take(rest, n)]

Serialize(d, m) ==
    IF d = "stdin" THEN SerializeRequest(m) ELSE SerializeResponse(m)
Deserialize(d, b) ==
    IF d = "stdin" THEN DeserializeRequest(b) ELSE DeserializeResponse(b)

\* The two write_all calls of send_request and send_response.
Frame(payload) == LenToLe(Len(payload)) \o payload

\* The paths, IDs and coordinates of the requests sent: the empty path, ASCII,
\* a two-byte character, bytes that are no UTF-8 (legal in a Unix path), and
\* a path long enough for a frame of more than 255 bytes.
U32Max == <<65535, 65535>>
U64Max == <<65535, 65535, 65535, 65535>>
LongPath == [i \in 1 .. 240 |-> 97]
CodecPaths ==
    {<<>>, <<97, 47, 98>>, <<195, 169>>, <<97, 255>>, <<195>>, LongPath}
\* Each path with the least and with the greatest ID and coordinates.
CodecRequests ==
    {[kind |-> "WorkerRequest", id |-> <<0, 0, 0, 1>>, style_path |-> p,
      z |-> 0, x |-> <<0, 0>>, y |-> <<0, 7>>] : p \in CodecPaths}
    \cup
    {[kind |-> "WorkerRequest", id |-> U64Max, style_path |-> p,
      z |-> 255, x |-> U32Max, y |-> U32Max] : p \in CodecPaths}

\* The responses sent: raw image bytes (any bytes) or an error string.
CodecResponses ==
    {[kind |-> "WorkerResponse", id |-> <<0, 0, 0, 1>>, ok |-> TRUE, data |-> b] :
        b \in {<<>>, <<1, 0, 0, 0, 1, 0, 0, 0, 255, 128, 0, 255>>,
                [i \in 1 .. 300 |-> i % 256]}}
    \cup
    {[kind |-> "WorkerResponse", id |-> U64Max, ok |-> FALSE, data |-> b] :
        b \in {<<>>, <<97, 47, 98>>, <<195, 169>>}}

CodecMessages(d) == IF d = "stdin" THEN CodecRequests ELSE CodecResponses

\* send_request / send_response from serialization on: the message is
\* serialized; on failure the error is returned and nothing is written, else
\* the length prefix and the payload are written to the pipe.
SendFrame(d, m) ==
    LET encoded == Serialize(d, m) IN
    /\ poolKind = "none"
    /\ Len(submitted[d]) < MaxFrames
    /\ submitted' = [submitted EXCEPT ![d] = Append(@, m)]
    /\ IF encoded = SerializationError
       THEN UNCHANGED <<pipeBytes, payloadsWritten>>
       ELSE /\ pipeBytes' = [pipeBytes EXCEPT ![d] = @ \o Frame(encoded)]
            /\ payloadsWritten' = [payloadsWritten EXCEPT ![d] =
                                     Append(@, encoded)]
    /\ UNCHANGED <<poolVars, studyVars, globalVars, bootVars,
                   payloadsRead, received>>

\* run_worker / read_responses up to the decoded message: read_exact of the
\* four prefix bytes, read_exact of as many bytes as they say, deserialize.
ReceiveFrame(d) ==
    LET len == LenFromLe(Take(pipeBytes[d], 4))
        buffer == SubSeq(pipeBytes[d], 5, 4 + len)
    IN
    /\ poolKind = "none"
    /\ Len(pipeBytes[d]) >= 4
    /\ Len(pipeBytes[d]) >= 4 + len
    /\ pipeBytes' = [pipeBytes EXCEPT ![d] = Drop(@, 4 + len)]
    /\ payloadsRead' = [payloadsRead EXCEPT ![d] = Append(@, buffer)]
    /\ received' = [received EXCEPT ![d] = Append(@, Deserialize(d, buffer))]
    /\ UNCHANGED <<poolVars, studyVars, globalVars, bootVars,
                   submitted, payloadsWritten>>

CodecInit ==
    /\ poolKind = "none"
    /\ fault = "none"
    /\ Start

CodecNext ==
    \/ \E m \in CodecRequests : SendFrame("stdin", m)
    \/ \E m \in CodecResponses : SendFrame("stdout", m)
    \/ \E d \in Directions : ReceiveFrame(d)

CodecSpec == CodecInit /\ [][CodecNext]_vars

\* ---------------------------------------------------------------- C24
\* The requests handed to send_request so far.
RequestsSubmitted == submitted["stdin"]

\* A request survives encoding and decoding unchanged.
RoundTrips(m) ==
    /\ SerializeRequest(m) # SerializationError
    /\ DeserializeRequest(SerializeRequest(m)) = m

\* C24 as stated: encoding a request and decoding the result reproduces id,
\* style path, z, x and y, whatever the path.
C24_RoundTripAnyPath ==
    \A i \in 1 .. Len(RequestsSubmitted) : RoundTrips(RequestsSubmitted[i])

\* C24, amended: a request whose style path is valid UTF-8 is reproduced
\* exactly by encoding and decoding (id, path, z, x, y, the greatest values
\* included), and the requests the worker decodes from its pipe are those
\* requests in the order sent; a request whose path is not valid UTF-8 is
\* refused with a serialization error and nothing of it is written.
C24_RoundTripUtf8Path ==
    /\ \A i \in 1 .. Len(RequestsSubmitted) :
          LET m == RequestsSubmitted[i] IN
          IF IsUtf8(m.style_path) THEN RoundTrips(m)
          ELSE SerializeRequest(m) = SerializationError
    /\ LET sent == SelectSeq(RequestsSubmitted,
                             LAMBDA m : IsUtf8(m.style_path))
       IN /\ Len(payloadsWritten["stdin"]) = Len(sent)
          /\ Len(received["stdin"]) <= Len(sent)
          /\ received["stdin"] = Take(sent, Len(received["stdin"]))

\* C24 witness: of two requests handed to send_request the one with the
\* non-UTF-8 path was refused, and the worker has decoded the other, with
\* the long path and the greatest ID, z, x and y.
C24_Witness ==
    /\ Len(RequestsSubmitted) = 2
    /\ ~IsUtf8(RequestsSubmitted[1].style_path)
    /\ received["stdin"] =
          <<[kind |-> "WorkerRequest", id |-> U64Max, style_path |-> LongPath,
             z |-> 255, x |-> U32Max, y |-> U32Max]>>
    /\ pipeBytes["stdin"] = <<>>

\* ---------------------------------------------------------------- C25
\* The bytes of a sequence of payloads, each framed, one after the other.
RECURSIVE Framed(_)
Framed(payloads) ==
    IF payloads = <<>> THEN <<>>
    ELSE Frame(Head(payloads)) \o Framed(Tail(payloads))

\* C25: in both directions every message is on the pipe as four bytes, the
\* payload's byte count as a little-endian u32, followed by exactly the
\* payload: the pipe holds the frames of the payloads written and not yet
\* read, one after the other, and what the receiver has taken as payloads
\* are the payloads written, whole and in order.
C25_LengthPrefixedFrames ==
    \A d \in Directions :
        LET w == payloadsWritten[d]
            r == payloadsRead[d]
        IN /\ \A i \in 1 .. Len(w) :
                 /\ Len(Frame(w[i])) = 4 + Len(w[i])
                 /\ LenFromLe(Take(Frame(w[i]), 4)) = Len(w[i])
                 /\ Drop(Frame(w[i]), 4) = w[i]
           /\ Len(r) <= Len(w)
           /\ r = Take(w, Len(r))
           /\ pipeBytes[d] = Framed(Drop(w, Len(r)))

\* C25 witness: a payload of more than 255 bytes has been read off a pipe
\* whole, and the frame written after it is what the pipe now holds.
C25_Witness ==
    \E d \in Directions :
        /\ Len(payloadsWritten[d]) = 2
        /\ Len(payloadsRead[d]) = 1
        /\ Len(payloadsRead[d][1]) > 255
        /\ pipeBytes[d] = Frame(payloadsWritten[d][2])

\* ------------------------------------------- global_pool (pool.rs:118-125)
\* A Once that lets every caller that finds it not complete run the
\* initializer.
OnceTakesUnlessComplete(state) == state # "complete"

\* Once::call_once: the caller that finds the Once incomplete runs the
\* initializer; one that finds it running waits.
OnceTakes(state) == state = "incomplete"

\* A thread calls global_pool().
GCall(g) ==
    /\ poolKind = "none"
    /\ gpc[g] = "out"
    /\ gpc' = [gpc EXCEPT ![g] = "forcing"]
    /\ UNCHANGED <<poolVars, studyVars, codecVars, bootVars, once, gref, created>>

\* `&GLOBAL_POOL` dereferences the LazyLock: a complete one hands out its
\* value, otherwise the caller takes the initialization or waits for it.
GForce(g) ==
    /\ poolKind = "none"
    /\ gpc[g] = "forcing"
    /\ IF once.state = "complete"
       THEN /\ gpc' = [gpc EXCEPT ![g] = "returned"]
            /\ gref' = [gref EXCEPT ![g] = once.value]
            /\ UNCHANGED once
       ELSE IF OnceTakes(once.state)
       THEN /\ gpc' = [gpc EXCEPT ![g] = "initializing"]
            /\ once' = [once EXCEPT !.state = "running"]
            /\ UNCHANGED gref
       ELSE /\ gpc' = [gpc EXCEPT ![g] = "waiting"]
            /\ UNCHANGED <<once, gref>>
    /\ UNCHANGED <<poolVars, studyVars, codecVars, bootVars, created>>

\* The initializer, SingleThreadedRenderPool::new: make the channel, spawn
\* the worker thread; the LazyLock stores the pool and completes.
GInit(g) ==
    LET pool == created.pools + 1 IN
    /\ poolKind = "none"
    /\ gpc[g] = "initializing"
    /\ created' = [created EXCEPT !.pools = pool, !.threads = @ + 1]
    /\ once' = [state |-> "complete", value |-> pool]
    /\ gref' = [gref EXCEPT ![g] = pool]
    /\ gpc' = [gpc EXCEPT ![g] = "returned"]
    /\ UNCHANGED <<poolVars, studyVars, codecVars, bootVars>>

\* A caller that waited on the running Once resumes once it is complete.
GWake(g) ==
    /\ poolKind = "none"
    /\ gpc[g] = "waiting"
    /\ once.state = "complete"
    /\ gpc' = [gpc EXCEPT ![g] = "returned"]
    /\ gref' = [gref EXCEPT ![g] = once.value]
    /\ UNCHANGED <<poolVars, studyVars, codecVars, bootVars, once, created>>

\* A spawned worker thread starts: it builds its renderer.
GThreadStart ==
    /\ poolKind = "none"
    /\ created.backends < created.threads
    /\ created' = [created EXCEPT !.backends = @ + 1]
    /\ UNCHANGED <<poolVars, studyVars, codecVars, bootVars, once, gpc, gref>>

\* The caller goes on with the reference it got, free to call again.
GDone(g) ==
    /\ poolKind = "none"
    /\ gpc[g] = "returned"
    /\ gpc' = [gpc EXCEPT ![g] = "out"]
    /\ UNCHANGED <<poolVars, studyVars, codecVars, bootVars, once, gref, created>>

GlobalInit ==
    /\ poolKind = "none"
    /\ fault = "none"
    /\ Start

GlobalNext ==
    \/ \E g \in Callers : GCall(g)
    \/ \E g \in Callers : GForce(g)
    \/ \E g \in Callers : GInit(g)
    \/ \E g \in Callers : GWake(g)
    \/ GThreadStart
    \/ \E g \in Callers : GDone(g)

GlobalSpec == GlobalInit /\ [][GlobalNext]_vars

\* ---------------------------------------------------------------- C26
\* At most one of each was ever created, nothing before the first access,
\* and every reference handed out is to the one pool GLOBAL_POOL holds.
OnePoolForAll ==
    /\ created.pools <= 1
    /\ created.threads <= 1
    /\ created.backends <= 1
    /\ once.state # "complete" => created = NothingCreated
    /\ (\A g \in Callers : gpc[g] = "out" /\ gref[g] = NoPool) =>
          created = NothingCreated
    /\ once.state = "complete" => once.value = 1 /\ created.pools = 1
    /\ \A g \in Callers :
          gref[g] # NoPool => once.state = "complete" /\ gref[g] = once.value

\* Once complete, GLOBAL_POOL keeps its pool: nothing resets or replaces it.
NeverTornDown ==
    once.state = "complete" =>
        /\ once' = once
        /\ created'.pools = created.pools
        /\ created'.threads = created.threads

\* C26: the global pool is created lazily, on the first access and not
\* before; however many threads make their first global_pool call at the
\* same time, exactly one pool, one worker thread and one backend are
\* created, every call returns that same pool, and it is never torn down.
C26_GlobalPoolSingleton == []OnePoolForAll /\ [][NeverTornDown]_vars

\* C26 witness: three threads called global_pool before it was initialized;
\* one ran the initializer and has its reference, the worker thread has
\* built its backend, and the other two are still waiting on the Once.
C26_Witness ==
    \E g \in Callers :
        /\ gpc[g] = "returned"
        /\ gref[g] = 1
        /\ created = [pools |-> 1, threads |-> 1, backends |-> 1]
        /\ \A h \in Callers \ {g} : gpc[h] = "waiting"

\* ----------------------- the hosting program and MultiThreadedRenderPool::new
\* The argument Worker::spawn passes, and is_worker_process looks for.
WorkerFlag == "--maplibre-worker"

\* An argument that is not valid Unicode (a file name may be one).
NonUnicode == "<not unicode>"

\* The argument lists the user may launch the hosting program with.
LaunchArgs ==
    {<<"exe">>, <<"exe", "--style">>, <<"exe", WorkerFlag>>,
     <<"exe", "--style", WorkerFlag>>, <<"exe", NonUnicode>>,
     <<"exe", WorkerFlag, NonUnicode>>, <<"exe", NonUnicode, WorkerFlag>>}

\* The arguments of a process spawned by Worker::spawn.
SpawnArgs == <<"exe", WorkerFlag>>

\* The number of workers the hosting program may ask for.
WorkerCounts == 0 .. (MaxProcesses - 1)

\* The first position of `a` at which `arg` stands, Len(a) + 1 if none.
FirstAt(a, arg) ==
    IF \E i \in 1 .. Len(a) : a[i] = arg
    THEN CHOOSE i \in 1 .. Len(a) :
            a[i] = arg /\ \A j \in 1 .. (i - 1) : a[j] # arg
    ELSE Len(a) + 1

\* `std::env::args().any(|arg| arg == "--maplibre-worker")`: the arguments
\* are looked at in order up to the first match; std::env::args panics when
\* it comes to an argument that is not valid Unicode.
IsWorkerProcess(a) ==
    IF FirstAt(a, WorkerFlag) < FirstAt(a, NonUnicode) THEN "true"
    ELSE IF FirstAt(a, NonUnicode) <= Len(a) THEN "panic"
    ELSE "false"

\* A pool construction that goes on to the next worker when a spawn fails.
SpawnFailureReturnsNever(outcome) == FALSE

\* `workers.push(Worker::spawn()?)`: a failed spawn makes new return.
SpawnFailureReturns(outcome) == outcome # "Ok"

\* The processes that process p has spawned as workers.
ChildrenOf(p) == {newCall[p].workers[i] : i \in 1 .. Len(newCall[p].workers)}

\* The processes that were spawned as workers.
Spawned == UNION {ChildrenOf(p) : p \in Processes}

\* The other end of process c's standard input is closed: the Worker that
\* held it was dropped or the process that held it has ended; for the
\* process the user launched, the user may end the input at any time.
StdinClosed(c) ==
    \/ c \notin Spawned
    \/ \E p \in Processes :
          /\ c \in ChildrenOf(p)
          /\ \/ newCall[p].result = "Err"
             \/ ppc[p] \in {"failed", "exited"}

\* main: the worker-mode check, the first statement of the program.
MainCheck(p) ==
    LET is_worker == IsWorkerProcess(args[p]) IN
    /\ poolKind = "none"
    /\ ppc[p] = "main"
    /\ ppc' = [ppc EXCEPT ![p] = CASE is_worker = "true" -> "worker"
                                   [] is_worker = "false" -> "normal"
                                   [] OTHER -> "panicked"]
    /\ ranNormal' = [ranNormal EXCEPT ![p] = (is_worker = "false")]
    /\ UNCHANGED <<poolVars, studyVars, codecVars, globalVars, args, newCall>>

\* main in worker mode: run_worker returns when its input ends, and main
\* returns after it.
WorkerModeEnds(p) ==
    /\ poolKind = "none"
    /\ ppc[p] = "worker"
    /\ StdinClosed(p)
    /\ ppc' = [ppc EXCEPT ![p] = "exited"]
    /\ UNCHANGED <<poolVars, studyVars, codecVars, globalVars, args, ranNormal, newCall>>

\* main in normal mode calls MultiThreadedRenderPool::new(n).
NewBegin(p, n) ==
    /\ poolKind = "none"
    /\ ppc[p] = "normal"
    /\ ppc' = [ppc EXCEPT ![p] = "creating"]
    /\ newCall' = [newCall EXCEPT ![p] = [NoNew EXCEPT !.num_workers = n]]
    /\ UNCHANGED <<poolVars, studyVars, codecVars, globalVars, args, ranNormal>>

\* new: one turn of the loop, `workers.push(Worker::spawn()?)`.  A spawn
\* that succeeds starts a process with the worker flag and piped stdin and
\* stdout; one that fails (no executable path, no process to be had) ends
\* new with the error, and the workers spawned before it are dropped.
Spawn(p, outcome) ==
    LET call == newCall[p]
        free == {c \in Processes : ppc[c] = "absent"}
        child == CHOOSE c \in free : \A d \in free : c <= d
    IN
    /\ poolKind = "none"
    /\ ppc[p] = "creating"
    /\ call.tried < call.num_workers
    /\ outcome = "Ok" => free # {}
    /\ IF outcome = "Ok"
       THEN /\ newCall' = [newCall EXCEPT ![p] =
                  [call EXCEPT !.tried = @ + 1, !.workers = Append(@, child)]]
            /\ args' = [args EXCEPT ![child] = SpawnArgs]
            /\ ppc' = [ppc EXCEPT ![child] = "main"]
       ELSE IF SpawnFailureReturns(outcome)
       THEN /\ newCall' = [newCall EXCEPT ![p] =
                  [call EXCEPT !.tried = @ + 1, !.result = "Err"]]
            /\ ppc' = [ppc EXCEPT ![p] = "failed"]
            /\ UNCHANGED args
       ELSE /\ newCall' = [newCall EXCEPT ![p] = [call EXCEPT !.tried = @ + 1]]
            /\ UNCHANGED <<args, ppc>>
    /\ UNCHANGED <<poolVars, studyVars, codecVars, globalVars, ranNormal>>

\* new: the loop is over, the pool is returned.
NewEnd(p) ==
    /\ poolKind = "none"
    /\ ppc[p] = "creating"
    /\ newCall[p].tried = newCall[p].num_workers
    /\ newCall' = [newCall EXCEPT ![p] = [@ EXCEPT !.result = "Ok"]]
    /\ ppc' = [ppc EXCEPT ![p] = "serving"]
    /\ UNCHANGED <<poolVars, studyVars, codecVars, globalVars, args, ranNormal>>

\* main in normal mode ends; its pool and the pipes it holds go with it.
MainEnds(p) ==
    /\ poolKind = "none"
    /\ ppc[p] = "serving"
    /\ ppc' = [ppc EXCEPT ![p] = "exited"]
    /\ UNCHANGED <<poolVars, studyVars, codecVars, globalVars, args, ranNormal, newCall>>

\* The user launches the hosting program.
BootInit ==
    /\ poolKind = "none"
    /\ fault = "none"
    /\ PoolStart /\ CodecStart /\ GlobalStart /\ StudyStart
    /\ args \in {[p \in Processes |-> IF p = Root THEN a ELSE <<>>] :
                    a \in LaunchArgs}
    /\ ppc = [p \in Processes |-> IF p = Root THEN "main" ELSE "absent"]
    /\ ranNormal = [p \in Processes |-> FALSE]
    /\ newCall = [p \in Processes |-> NoNew]

BootNext ==
    \/ \E p \in Processes : MainCheck(p)
    \/ \E p \in Processes : WorkerModeEnds(p)
    \/ \E p \in Processes, n \in WorkerCounts : NewBegin(p, n)
    \/ \E p \in Processes, outcome \in {"Ok", "Err"} : Spawn(p, outcome)
    \/ \E p \in Processes : NewEnd(p)
    \/ \E p \in Processes : MainEnds(p)

BootSpec == BootInit /\ [][BootNext]_vars

\* ---------------------------------------------------------------- C27
\* C27: MultiThreadedRenderPool::new(n) hands out a pool only when each of
\* its n spawns gave a worker process (started with the worker flag, its
\* stdin and stdout piped), and when a spawn fails it returns the error and
\* the caller gets no pool.
C27_PoolOnlyIfAllSpawned ==
    \A p \in Processes :
        LET call == newCall[p] IN
        /\ call.result = "Ok" =>
              /\ Len(call.workers) = call.num_workers
              /\ \A c \in ChildrenOf(p) :
                    ppc[c] # "absent" /\ args[c] = SpawnArgs
              /\ Cardinality(ChildrenOf(p)) = call.num_workers
        /\ Len(call.workers) < call.tried => call.result = "Err"
        /\ call.result = "Err" => ppc[p] = "failed"
        /\ ppc[p] \in {"serving", "exited"} /\ ranNormal[p] =>
              call.result = "Ok"

\* C27 witness: new(2) spawned its first worker, the second spawn failed,
\* and new returned the error.
C27_Witness ==
    \E p \in Processes :
        /\ newCall[p].num_workers = 2
        /\ Len(newCall[p].workers) = 1
        /\ newCall[p].result = "Err"
        /\ ppc[p] = "failed"

\* ---------------------------------------------------------------- C28
\* Process p is past the worker-mode check of main.
Checked(p) == ppc[p] \notin {"absent", "main"}

HasFlag(a) == \E i \in 1 .. Len(a) : a[i] = WorkerFlag

\* A process spawned as a worker is launched with the flag, goes from the
\* check into the worker loop and nowhere else: it runs no normal-mode
\* logic and never calls new.
SpawnedRunOnlyWorkerLoop ==
    \A c \in Spawned :
        /\ HasFlag(args[c])
        /\ ppc[c] \in {"main", "worker", "exited"}
        /\ ~ranNormal[c]
        /\ newCall[c] = NoNew

\* C28: the flag Worker::spawn passes is the one is_worker_process tests
\* for; is_worker_process is true iff the launch arguments contain the flag,
\* so that a process past the check of main is in worker mode when they do
\* and in normal mode when they do not; and a spawned worker runs the worker
\* loop only, never normal-mode logic.
C28_WorkerModeIffFlag ==
    /\ SpawnedRunOnlyWorkerLoop
    /\ \A p \in Processes :
          Checked(p) =>
              IF HasFlag(args[p])
              THEN ppc[p] \in {"worker", "exited"} /\ ~ranNormal[p]
              ELSE ranNormal[p] /\ ppc[p] # "panicked"

\* ---------------------------------------------------------------- C29
\* The request the pool thread holds, and the call it belongs to.
ThreadCall == cur[Thread].call

\* One step of the pool thread, from position `a` to position `b`, is one of
\* the moves of its loop (pool.rs:64-80):
\*   idle -> style          recv returned a request (Processing)
\*   style -> loading       the path differs from the cache: reload
\*   style -> render        the path is the cached one: nothing is sent
\*   style -> idle          the reload failed before the engine: the error
\*                          is sent to the caller, render is not called
\*   loading -> render      the engine took the style
\*   render -> rendering    render_tile calls the engine (Rendering)
\*   rendering -> idle      the result is sent to the caller (Responding)
\*   loading, rendering -> stopped    the thread ends in the renderer
ThreadMove(a, b) ==
    \/ a = "idle" /\ b = "style"
    \/ a = "style" /\ b = "loading"
    \/ /\ a = "style" /\ b = "render"
       /\ cur[Thread].style_path = current_style[Thread]
       /\ chan' = chan
    \/ /\ a = "style" /\ b = "idle"
       /\ chan'[ThreadCall].kind = "IOError"
       /\ sends'[ThreadCall] = sends[ThreadCall] + 1
       /\ obs'[ThreadCall].ffiRenders = 0
       /\ current_style' = current_style
    \/ a = "loading" /\ b = "render"
    \/ a = "render" /\ b = "rendering"
    \/ /\ a = "rendering" /\ b = "idle"
       /\ sends'[ThreadCall] = sends[ThreadCall] + 1
    \/ a \in {"loading", "rendering"} /\ b = "stopped"

\* C29: the pool thread only moves Idle -> Processing -> (style reload if
\* the path changed) -> Rendering -> Responding -> Idle; a failed reload is
\* answered with its error and the thread is back at Idle without having
\* called render; Stopped is entered only by the thread ending, and once
\* Stopped the thread stays Stopped and handles nothing.
C29_ThreadStateMachine ==
    [][ /\ pc'[Thread] # pc[Thread] => ThreadMove(pc[Thread], pc'[Thread])
        /\ pc[Thread] = "stopped" =>
              /\ pc'[Thread] = "stopped"
              /\ hist'[Thread] = hist[Thread]
              /\ inProgress'[Thread] = 0
      ]_vars

\* C29 witness: the thread has answered one call with an image and one with
\* the error of a failed reload that was never rendered, and has then
\* stopped.
C29_Witness ==
    /\ poolKind = "single"
    /\ pc[Thread] = "stopped"
    /\ \E n, m \in Calls :
          /\ chan[n].kind = "Image"
          /\ chan[m].kind = "IOError"
          /\ obs[m].loadCalled
          /\ obs[m].ffiRenders = 0

\* --------------------------------- the serializing pool, fairly scheduled
\* One turn of the pool thread's loop.
ThreadStep ==
    \/ SRecv
    \/ SStyle
    \/ SLoadDone
    \/ SRenderBegin
    \/ \E raw \in RawOutputs : SRenderEnd(raw)

\* The thread runs when it can (every engine call returns or ends the
\* thread), and a caller whose one-shot is resolved is resumed.
SingleScheduling ==
    /\ WF_vars(ThreadStep)
    /\ \A n \in Calls : WF_vars(SAwait(n))

\* The serializing pool alone; in some runs the thread ends inside the engine.
SingleInit ==
    /\ poolKind = "single"
    /\ fault \in {"none", "panic"}
    /\ Start

SingleNext ==
    \/ NextSingleOn(FaultPaths)
    \/ SThreadPanics

FairSingleSpec == SingleInit /\ [][SingleNext]_vars /\ SingleScheduling

\* ---------------------------------------------------------------- C30
\* A caller with no call open can submit, whatever is queued or in hand.
SubmitNeverBlocks ==
    (started < MaxCalls /\ TaskFree) =>
        ENABLED (\E p \in FaultPaths : SRenderTile(p))

\* C30: in the serializing pool every render_tile call whose request was
\* sent to the running thread eventually returns, with the one value sent on
\* its one-shot (an image or an error) or with the error of a one-shot whose
\* sender was dropped, never more than one value being sent; and submitting
\* a request never waits for the requests of other callers.
C30_EveryCallCompletes ==
    /\ [](\A n \in Calls : sends[n] <= 1)
    /\ []SubmitNeverBlocks
    /\ \A n \in Calls :
          (cpc[n] = "await") ~> (cpc[n] = "done" /\ cres[n] # NoResult)

\* C30 witness: every call of the run has returned, each with the one value
\* sent to it, and some call was submitted while another was outstanding.
C30_Witness ==
    /\ poolKind = "single"
    /\ overlapped
    /\ \A n \in Calls : cpc[n] = "done" /\ sends[n] = 1 /\ cres[n] = chan[n]

\* ----------------------------------- the process pool, fairly scheduled
\* One step of call n inside MultiThreadedRenderPool::render_tile.
CallerStep(n) ==
    \/ MSelect(n)
    \/ MSendLock(n)
    \/ MWrite(n)
    \/ MAwait(n)

\* The process pool alone, no worker lost and no frame damaged.
ProcessInit ==
    /\ poolKind = "process"
    /\ fault = "none"
    /\ Start

\* Workers and reader threads run when they can (Scheduling), and a caller
\* that can go on inside render_tile does: the executor polls its task when
\* the lock it waits for is free, the pipe has room or its one-shot is
\* resolved.
FairProcessSpec ==
    /\ ProcessInit
    /\ [][NextProcessOn(FaultPaths)]_vars
    /\ Scheduling
    /\ \A n \in Calls : WF_vars(CallerStep(n))

\* ---------------------------------------------------------------- C31
\* Call n has returned what its own worker produced for its own request.
ReturnedOwnResult(n) ==
    /\ cpc[n] = "done"
    /\ cres[n] = chan[n]
    /\ Completed(n)

\* C31: in the process pool with at least one worker, while no worker exits
\* and every frame decodes, every render_tile call that was entered returns
\* in the end, with the result its own worker produced for its own request.
C31_EveryCallCompletes ==
    \A n \in Calls : (cpc[n] = "select") ~> ReturnedOwnResult(n)

\* C31 witness: every call of the run has returned its own result, calls
\* were open at the same time, and both workers answered.
C31_Witness ==
    /\ poolKind = "process"
    /\ overlapped
    /\ \A n \in Calls : ReturnedOwnResult(n)
    /\ \A w \in Workers : \E n \in Calls : answeredBy[n] = w

\* ------------------------------------------- a pool of any accepted size
\* `new(num_workers)` accepts every usize; Worker::spawn is taken to succeed.
MaxListed == 3
MaxSelections == 4
ListSizes == 0 .. MaxListed

\* What is left beside the selection study.
BesideSelect == <<poolVars, codecVars, globalVars, bootVars, dispatchVars>>

\* `(*idx + 1) % num_workers`: a remainder by zero panics.
Advance(idx, num_workers) ==
    IF num_workers = 0
    THEN [panics |-> TRUE, idx |-> idx]
    ELSE [panics |-> FALSE, idx |-> (idx + 1) % num_workers]

\* new: n workers are pushed and the pool is returned, index 0.
SelNew(n) ==
    /\ poolKind = "none"
    /\ ~asked.built
    /\ asked' = [built |-> TRUE, num_workers |-> n]
    /\ wlist' = [i \in 1 .. n |-> "running"]
    /\ UNCHANGED <<rrIdx, idxLock, spc, pick, entered>>
    /\ UNCHANGED BesideSelect

\* render_tile is entered and has taken its request ID.
SelEnter(g) ==
    /\ poolKind = "none"
    /\ asked.built
    /\ spc[g] = "out"
    /\ entered < MaxSelections
    /\ entered' = entered + 1
    /\ spc' = [spc EXCEPT ![g] = "lock"]
    /\ UNCHANGED <<asked, wlist, rrIdx, idxLock, pick>>
    /\ UNCHANGED BesideSelect

\* `self.next_worker_idx.lock().unwrap()`: waits for the mutex; panics on a
\* poisoned one.
SelLock(g) ==
    /\ poolKind = "none"
    /\ spc[g] = "lock"
    /\ idxLock \in {"free", "poisoned"}
    /\ IF idxLock = "poisoned"
       THEN /\ spc' = [spc EXCEPT ![g] = "panicked"]
            /\ UNCHANGED idxLock
       ELSE /\ spc' = [spc EXCEPT ![g] = "advance"]
            /\ idxLock' = g
    /\ UNCHANGED <<asked, wlist, rrIdx, pick, entered>>
    /\ UNCHANGED BesideSelect

\* `current = *idx; num_workers = workers.len(); *idx = (*idx + 1) %
\* num_workers`: a panic here unwinds through the guard and poisons the mutex.
SelAdvance(g) ==
    LET next == Advance(rrIdx, Len(wlist)) IN
    /\ poolKind = "none"
    /\ spc[g] = "advance"
    /\ IF next.panics
       THEN /\ spc' = [spc EXCEPT ![g] = "panicked"]
            /\ idxLock' = "poisoned"
            /\ UNCHANGED <<rrIdx, pick>>
       ELSE /\ pick' = [pick EXCEPT ![g] = rrIdx]
            /\ rrIdx' = next.idx
            /\ idxLock' = "free"
            /\ spc' = [spc EXCEPT ![g] = "index"]
    /\ UNCHANGED <<asked, wlist, entered>>
    /\ UNCHANGED BesideSelect

\* `workers[worker_idx].send_request(..)`: indexing past the end panics.
SelIndex(g) ==
    /\ poolKind = "none"
    /\ spc[g] = "index"
    /\ spc' = [spc EXCEPT ![g] =
                 IF pick[g] < Len(wlist) THEN "out" ELSE "panicked"]
    /\ UNCHANGED <<asked, wlist, rrIdx, idxLock, pick, entered>>
    /\ UNCHANGED BesideSelect

\* A worker process ends; its entry stays in the list.
SelWorkerFails(i) ==
    /\ poolKind = "none"
    /\ i \in DOMAIN wlist
    /\ wlist[i] = "running"
    /\ wlist' = [wlist EXCEPT ![i] = "failed"]
    /\ UNCHANGED <<asked, rrIdx, idxLock, spc, pick, entered>>
    /\ UNCHANGED BesideSelect

SelectInit ==
    /\ poolKind = "none"
    /\ fault = "none"
    /\ Start

SelectNext ==
    \/ \E n \in ListSizes : SelNew(n)
    \/ \E g \in Callers : SelEnter(g)
    \/ \E g \in Callers : SelLock(g)
    \/ \E g \in Callers : SelAdvance(g)
    \/ \E g \in Callers : SelIndex(g)
    \/ \E i \in 1 .. MaxListed : SelWorkerFails(i)

SelectSpec == SelectInit /\ [][SelectNext]_vars

\* ---------------------------------------------------------------- C32
\* The worker list is as long as `new` was asked to make it, the round-robin
\* index stays below its length, every index a caller is about to use is an
\* index into it, no selection has panicked and the index mutex is not
\* poisoned.
SelectionSound ==
    /\ Len(wlist) = asked.num_workers
    /\ Len(wlist) >= 1 => rrIdx \in 0 .. (Len(wlist) - 1)
    /\ \A g \in Callers : spc[g] = "index" => pick[g] \in 0 .. (Len(wlist) - 1)
    /\ idxLock # "poisoned"
    /\ \A g \in Callers : spc[g] # "panicked"

\* C32: in every state of a pool that new(n) returned, for every n new
\* accepts (0 included), the worker list has exactly n entries, the
\* round-robin index is a valid index into it, and selecting a worker has
\* not panicked (division by zero, index out of range) nor poisoned a lock.
C32_IndexAlwaysValid == asked.built => SelectionSound

\* The same for the pools of one worker or more.
C32_ValidWhenNonEmpty ==
    (asked.built /\ asked.num_workers >= 1) => SelectionSound

\* ---------------------------------------------------------------- C33
\* Context c's cache names the style its engine holds.
CacheIsLoaded(c) == current_style[c] = loaded[c]

\* C33: in both pools, in every context, the cached style path is the path
\* last handed to the engine (nothing cached while nothing was handed over),
\* and whenever the context is about to render or is rendering a request's
\* tile, the style its engine holds is that request's own style path.
C33_RendersOwnStyle ==
    \A c \in Contexts :
        /\ CacheIsLoaded(c)
        /\ pc[c] \in {"render", "rendering"} =>
              /\ loaded[c] = cur[c].style_path
              /\ style_specified[c]

\* C33 witness: a context renders under a cache hit, after it loaded that
\* style for one earlier request and failed to load the style of another.
C33_Witness ==
    \E c \in Contexts :
        /\ pc[c] = "rendering"
        /\ ~obs[cur[c].call].loadCalled
        /\ \E m, k \in Calls :
              /\ obs[m].ctx = c /\ obs[m].ffiLoads = 1
              /\ obs[k].ctx = c /\ obs[k].loadCalled /\ obs[k].ffiLoads = 0

\* ------------------------- one worker's dispatch, lock by lock and write by
\* write: the parent's three mutexes, the worker's two pipes of bounded
\* capacity, the worker process and its reader thread.
ChunkCapacity == 1

\* What is left beside the dispatch study.
BesideDispatch == <<poolVars, codecVars, globalVars, bootVars, selectVars>>

\* The two writes of a frame: the 4-byte length, then the payload.
Chunk(g, part) == [of |-> g, part |-> part]

Held(a) == {holds[a][i] : i \in 1 .. Len(holds[a])}

\* Mutex::lock returns once no thread holds the mutex.
LockFree(lock) == \A a \in Agents : lock \notin Held(a)

Release(a, lock) == SelectSeq(holds[a], LAMBDA l : l # lock)

\* A pending-table guard bound to a variable of send_request.
PendingGuardInFunction == "function"

\* `self.pending.lock().unwrap().insert(..)`: the guard is a temporary of
\* that statement.
PendingGuardScope == "statement"

\* A worker-list guard taken for each write on its own.
ListGuardPerWrite == "write"

\* `let mut workers = self.workers.lock().unwrap();` lives to the end of the
\* block around the send_request call.
ListGuardScope == "block"

\* render_tile is entered; the request ID is taken under its own mutex.
DEnter(g) ==
    /\ poolKind = "none"
    /\ dpc[g] = "out"
    /\ dpc' = [dpc EXCEPT ![g] = "idx"]
    /\ UNCHANGED <<holds, dtable, din, dout, wpos, rpos, instream>>
    /\ UNCHANGED BesideDispatch

\* `self.next_worker_idx.lock()`
DLockIdx(g) ==
    /\ poolKind = "none"
    /\ dpc[g] = "idx"
    /\ LockFree("idx")
    /\ holds' = [holds EXCEPT ![g] = Append(@, "idx")]
    /\ dpc' = [dpc EXCEPT ![g] = "len"]
    /\ UNCHANGED <<dtable, din, dout, wpos, rpos, instream>>
    /\ UNCHANGED BesideDispatch

\* `self.workers.lock()` for the list's length, the index still locked.
DLockListForLen(g) ==
    /\ poolKind = "none"
    /\ dpc[g] = "len"
    /\ LockFree("list")
    /\ holds' = [holds EXCEPT ![g] = Append(@, "list")]
    /\ dpc' = [dpc EXCEPT ![g] = "advance"]
    /\ UNCHANGED <<dtable, din, dout, wpos, rpos, instream>>
    /\ UNCHANGED BesideDispatch

\* The length is read and the list unlocked, the index advanced and unlocked.
DAdvance(g) ==
    /\ poolKind = "none"
    /\ dpc[g] = "advance"
    /\ holds' = [holds EXCEPT ![g] = <<>>]
    /\ dpc' = [dpc EXCEPT ![g] = "list"]
    /\ UNCHANGED <<dtable, din, dout, wpos, rpos, instream>>
    /\ UNCHANGED BesideDispatch

\* `self.workers.lock()` around send_request.
DLockList(g) ==
    /\ poolKind = "none"
    /\ dpc[g] = "list"
    /\ LockFree("list")
    /\ holds' = [holds EXCEPT ![g] = Append(@, "list")]
    /\ dpc' = [dpc EXCEPT ![g] = "pend"]
    /\ UNCHANGED <<dtable, din, dout, wpos, rpos, instream>>
    /\ UNCHANGED BesideDispatch

\* send_request: `self.pending.lock()`
DLockPending(g) ==
    /\ poolKind = "none"
    /\ dpc[g] = "pend"
    /\ LockFree("pending")
    /\ holds' = [holds EXCEPT ![g] = Append(@, "pending")]
    /\ dpc' = [dpc EXCEPT ![g] = "insert"]
    /\ UNCHANGED <<dtable, din, dout, wpos, rpos, instream>>
    /\ UNCHANGED BesideDispatch

\* send_request: the one-shot is registered and the table's guard dropped.
DInsert(g) ==
    /\ poolKind = "none"
    /\ dpc[g] = "insert"
    /\ dtable' = dtable \cup {g}
    /\ holds' = [holds EXCEPT ![g] =
                   IF PendingGuardScope = "statement"
                   THEN Release(g, "pending") ELSE @]
    /\ dpc' = [dpc EXCEPT ![g] = "prefix"]
    /\ UNCHANGED <<din, dout, wpos, rpos, instream>>
    /\ UNCHANGED BesideDispatch

\* send_request: `write_all(&len.to_le_bytes())`, waiting for room.
DWritePrefix(g) ==
    /\ poolKind = "none"
    /\ dpc[g] = "prefix"
    /\ Len(din) < ChunkCapacity
    /\ din' = Append(din, Chunk(g, "len"))
    /\ instream' = Append(instream, Chunk(g, "len"))
    /\ holds' = [holds EXCEPT ![g] =
                   IF ListGuardScope = "block" THEN @ ELSE Release(g, "list")]
    /\ dpc' = [dpc EXCEPT ![g] = "payload"]
    /\ UNCHANGED <<dtable, dout, wpos, rpos>>
    /\ UNCHANGED BesideDispatch

\* send_request: `write_all(&encoded)` and flush, waiting for room; then
\* send_request returns and the guards of render_tile's block are dropped.
DWritePayload(g) ==
    /\ poolKind = "none"
    /\ dpc[g] = "payload"
    /\ ListGuardScope = "block" \/ LockFree("list")
    /\ Len(din) < ChunkCapacity
    /\ din' = Append(din, Chunk(g, "data"))
    /\ instream' = Append(instream, Chunk(g, "data"))
    /\ holds' = [holds EXCEPT ![g] = <<>>]
    /\ dpc' = [dpc EXCEPT ![g] = "await"]
    /\ UNCHANGED <<dtable, dout, wpos, rpos>>
    /\ UNCHANGED BesideDispatch

\* `response_rx.await` returns in the caller the reader has woken.
DAwait(g) ==
    /\ poolKind = "none"
    /\ dpc[g] = "woken"
    /\ dpc' = [dpc EXCEPT ![g] = "done"]
    /\ UNCHANGED <<holds, dtable, din, dout, wpos, rpos, instream>>
    /\ UNCHANGED BesideDispatch

DCallerStep(g) ==
    \/ DEnter(g)
    \/ DLockIdx(g)
    \/ DLockListForLen(g)
    \/ DAdvance(g)
    \/ DLockList(g)
    \/ DLockPending(g)
    \/ DInsert(g)
    \/ DWritePrefix(g)
    \/ DWritePayload(g)
    \/ DAwait(g)

\* run_worker: read_exact of the length, read_exact of the payload, the
\* render, then send_response's two writes, each waiting for room.
DWorkerStep ==
    /\ poolKind = "none"
    /\ \/ /\ wpos.at \in {"readLen", "readData"}
          /\ din # <<>>
          /\ din' = Tail(din)
          /\ wpos' = IF wpos.at = "readLen"
                     THEN [at |-> "readData", of |-> Head(din).of]
                     ELSE [wpos EXCEPT !.at = "render"]
          /\ UNCHANGED dout
       \/ /\ wpos.at = "render"
          /\ wpos' = [wpos EXCEPT !.at = "writeLen"]
          /\ UNCHANGED <<din, dout>>
       \/ /\ wpos.at \in {"writeLen", "writeData"}
          /\ Len(dout) < ChunkCapacity
          /\ dout' = Append(dout, Chunk(wpos.of,
                              IF wpos.at = "writeLen" THEN "len" ELSE "data"))
          /\ wpos' = IF wpos.at = "writeLen"
                     THEN [wpos EXCEPT !.at = "writeData"]
                     ELSE [at |-> "readLen", of |-> NoCaller]
          /\ UNCHANGED din
    /\ UNCHANGED <<dpc, holds, dtable, rpos, instream>>
    /\ UNCHANGED BesideDispatch

\* read_responses: read_exact of the length, read_exact of the payload,
\* `pending.lock()`, then remove, unlock and send.
DReaderStep ==
    /\ poolKind = "none"
    /\ \/ /\ rpos.at \in {"readLen", "readData"}
          /\ dout # <<>>
          /\ dout' = Tail(dout)
          /\ rpos' = IF rpos.at = "readLen"
                     THEN [at |-> "readData", of |-> Head(dout).of]
                     ELSE [rpos EXCEPT !.at = "lock"]
          /\ UNCHANGED <<dpc, holds, dtable>>
       \/ /\ rpos.at = "lock"
          /\ LockFree("pending")
          /\ holds' = [holds EXCEPT ![ReaderThread] = Append(@, "pending")]
          /\ rpos' = [rpos EXCEPT !.at = "remove"]
          /\ UNCHANGED <<dpc, dtable, dout>>
       \/ /\ rpos.at = "remove"
          /\ dtable' = dtable \ {rpos.of}
          /\ holds' = [holds EXCEPT ![ReaderThread] = <<>>]
          /\ dpc' = IF rpos.of \in dtable
                    THEN [dpc EXCEPT ![rpos.of] = "woken"] ELSE dpc
          /\ rpos' = [at |-> "readLen", of |-> NoCaller]
          /\ UNCHANGED dout
    /\ UNCHANGED <<din, wpos, instream>>
    /\ UNCHANGED BesideDispatch

DispatchInit ==
    /\ poolKind = "none"
    /\ fault = "none"
    /\ Start

DispatchNext ==
    \/ \E g \in Callers : DCallerStep(g)
    \/ DWorkerStep
    \/ DReaderStep

DispatchSpec == DispatchInit /\ [][DispatchNext]_vars

\* Every thread and the worker process run when they can.
FairDispatchSpec ==
    /\ DispatchSpec
    /\ \A g \in Callers : WF_vars(DCallerStep(g))
    /\ WF_vars(DWorkerStep)
    /\ WF_vars(DReaderStep)

\* ---------------------------------------------------------------- C34
\* Index before worker list before pending table.
Rank(lock) == CASE lock = "idx" -> 1 [] lock = "list" -> 2 [] lock = "pending" -> 3

\* Agent a took the locks it holds in the order of their ranks.
InLockOrder(a) ==
    \A i, j \in 1 .. Len(holds[a]) : i < j => Rank(holds[a][i]) < Rank(holds[a][j])

\* A caller about to write to the pipe does not hold the pending table.
WritesWithoutPending ==
    \A g \in Callers : dpc[g] \in {"prefix", "payload"} => "pending" \notin Held(g)

\* Some step can be taken unless every call has returned.
NotStuck ==
    (\E g \in Callers : dpc[g] # "done") => ENABLED DispatchNext

\* C34: with pipes of bounded capacity, locks are taken in the order index,
\* worker list, pending table only; the reader holds nothing but the pending
\* table, which no caller holds across a pipe write; the pool is never stuck;
\* a caller writing a request gets past its write and a worker writing a
\* response gets it read and its call resolved.
C34_NeverDeadlocks ==
    /\ [](\A a \in Agents : InLockOrder(a))
    /\ [](Held(ReaderThread) \subseteq {"pending"})
    /\ []WritesWithoutPending
    /\ []NotStuck
    /\ \A g \in Callers :
          /\ (dpc[g] \in {"prefix", "payload"}) ~> (dpc[g] = "await")
          /\ (wpos.of = g /\ wpos.at \in {"writeLen", "writeData"})
                ~> (dpc[g] = "done")

\* C34 witness: the worker waits for room to write a response while a
\* caller, holding the worker list, waits for room to write a request and
\* another caller waits for the worker list.
C34_Witness ==
    /\ wpos.at = "writeData"
    /\ Len(dout) = ChunkCapacity
    /\ Len(din) = ChunkCapacity
    /\ \E g, h \in Callers :
          /\ dpc[g] = "payload"
          /\ "list" \in Held(g)
          /\ dpc[h] \in {"len", "list"}

\* ---------------------------------------------------------------- C38
\* s is a run of whole frames (a length chunk, then the payload chunk of the
\* same request), the last of which may still lack its payload.
WholeFrames(s) ==
    \A i \in 1 .. Len(s) :
        IF i % 2 = 1 THEN s[i].part = "len"
        ELSE s[i].part = "data" /\ s[i].of = s[i - 1].of

\* C38: what callers dispatching at the same time to one worker write to its
\* input is a concatenation of whole frames: the length prefix of a frame is
\* followed by that frame's payload, never by bytes of another frame, and
\* the worker never reads the chunk of one request as the payload of another.
C38_FramesNotInterleaved ==
    /\ WholeFrames(instream)
    /\ \A i \in 1 .. Len(din) :
          din[i].part = "data" => \/ i > 1 /\ din[i - 1] = Chunk(din[i].of, "len")
                                  \/ i = 1 /\ wpos = [at |-> "readData", of |-> din[i].of]

\* C38 witness: one frame is written whole, a caller has written the length
\* of the next and not yet its payload, and a third caller waits to write.
C38_Witness ==
    /\ Len(instream) = 3
    /\ \E g, h \in Callers :
          /\ dpc[g] = "payload"
          /\ dpc[h] = "list"
          /\ instream[3] = Chunk(g, "len")

\* ---------------------------------------------------------------- C35
\* send_request failed for call n: render_tile returned its write error.
SendFailed(n) ==
    /\ cpc[n] = "done"
    /\ cres[n] = ErrorOf("IOError", "BrokenPipe", n)

\* C35: when send_request fails, render_tile returns that error and the
\* worker's pending table holds no entry for the failed request's ID.
C35_FailedSendLeavesNoEntry ==
    \A n \in Calls :
        SendFailed(n) => \A e \in pending[cworker[n]] : e[1] # cid[n]

\* ---------------------------------------------------------------- C36
\* The thread has taken up calls 1 .. k in that order, and the queue holds
\* the calls after them in the order they were sent.
TakenInSendOrder ==
    /\ hist[Thread] = [i \in 1 .. Len(hist[Thread]) |-> i]
    /\ \A i \in 1 .. Len(queue) : queue[i].call = Len(hist[Thread]) + i

\* A one-shot is resolved only after those of all calls sent before it, and
\* before those of all calls sent after it.
ResolvedInSendOrder ==
    \A n \in Calls :
        chan'[n] # chan[n] =>
            /\ \A m \in Calls : m < n => chan[m] # Empty
            /\ \A m \in Calls : m > n => chan[m] = Empty

\* C36: the serializing pool takes up requests in exactly the order in which
\* they were put on its channel (calls are numbered in that order), and
\* resolves their one-shots in that same order.
C36_FifoOrder ==
    /\ [](poolKind = "single" => TakenInSendOrder)
    /\ [][poolKind = "single" => ResolvedInSendOrder]_vars

\* C36 witness: two calls were outstanding together; the one sent first has
\* been resolved, its caller not yet resumed, and the thread has moved on to
\* the one sent second.
C36_Witness ==
    /\ poolKind = "single"
    /\ hist[Thread] = <<1, 2>>
    /\ cpc[1] = "await" /\ chan[1] # Empty
    /\ cpc[2] = "await" /\ chan[2] = Empty

\* ---------------------------------------------------------------- C37
\* Call n was sent to the thread and has neither an answer nor the news that
\* there will be none.
Unanswered(n) == cpc[n] = "await" /\ chan[n] = Empty

\* Call n was queued or in hand when the thread stopped.
Orphaned(n) == ThreadGone /\ cpc[n] = "await" /\ chan[n] = Closed

\* C37: when the serializing pool's thread stops, every call that was queued
\* or being processed has its one-shot closed, so none is left unanswered;
\* each of them returns, with FailedToReceiveResponse.
C37_OrphansGetReceiveError ==
    /\ [](ThreadGone => \A n \in Calls : ~Unanswered(n))
    /\ \A n \in Calls :
          Orphaned(n) ~>
             (cpc[n] = "done"
                /\ cres[n] = ErrorOf("FailedToReceiveResponse", None, n))

\* C37 witness: the thread stopped with one request in hand and one queued,
\* and both calls have returned the receive error.
C37_Witness ==
    /\ ThreadGone
    /\ \E m, n \in Calls :
          /\ m # n
          /\ hist[Thread] # <<>> /\ hist[Thread][Len(hist[Thread])] = m
          /\ \A i \in 1 .. Len(hist[Thread]) : hist[Thread][i] # n
          /\ cres[m].kind = "FailedToReceiveResponse"
          /\ cres[n].kind = "FailedToReceiveResponse"

\* ------------------------------------- the process pool when it is dropped
\* The last clone of the pool is dropped: the Vec<Worker> goes, and with it
\* every worker's ChildStdin.  No call is open then (a call borrows the
\* pool); requests of abandoned calls may still be under way.  A `new` that
\* fails after spawning some workers drops them the same way, before any
\* request.
PoolDropped ==
    /\ poolKind = "process"
    /\ UNCHANGED sideVars
    /\ UNCHANGED wireVars
    /\ parentAlive
    /\ poolHeld
    /\ OpenCalls = {}
    /\ poolHeld' = FALSE
    /\ UNCHANGED <<poolKind, files, queue, callVars, ctxVars, procVars,
                   histVars, fault, parentAlive, reader, lookup, corrupt,
                   atExit>>

CloseInit ==
    /\ fault = "drop"
    /\ poolKind = "process"
    /\ Start

CloseNext ==
    \/ NextProcessOn(FaultPaths)
    \/ \E n \in Calls : DropCall(n)
    \/ PoolDropped
    \/ \E w \in Workers : WReadFails(w)
    \/ \E w \in Workers : ReaderEof(w)

\* Workers and readers run when they can (Scheduling), also to find their
\* input at its end.
FairCloseSpec ==
    /\ CloseInit
    /\ [][CloseNext]_vars
    /\ Scheduling
    /\ \A w \in Workers : WF_vars(WReadFails(w)) /\ WF_vars(ReaderEof(w))

\* ---------------------------------------------------------------- C39
\* C39: once the parent has closed the workers' input by dropping the pool,
\* every worker's loop comes to the end of its input and run_worker returns
\* Ok, never an error, and every reader thread ends, each only after its
\* worker has returned; run_worker returns only once the input is closed.
C39_ClosedInputEndsWorkers ==
    /\ \A w \in Workers :
          (~poolHeld) ~> (pc[w] = "returnedOk" /\ reader[w] = "exited")
    /\ [](\A w \in Workers :
             pc[w] \in Exited => (pc[w] = "returnedOk" /\ ~poolHeld))
    /\ [][\A w \in Workers :
             (reader[w] = "running" /\ reader'[w] = "exited")
                 => pc[w] = "returnedOk"]_vars

\* C39 witness: the pool was dropped while the request of an abandoned call
\* was still to be rendered; the request was rendered, and every worker has
\* returned Ok and every reader thread has ended.
C39_Witness ==
    /\ ~poolHeld
    /\ \A w \in Workers : pc[w] = "returnedOk" /\ reader[w] = "exited"
    /\ \E n \in Calls : cpc[n] = "dropped" /\ obs[n].ffiRenders = 1

====
